---- MODULE Spec2Model ----
(***************************************************************************)
(* adalogger: the three CAN-logger sketches of the repository.             *)
(*                                                                         *)
(*   build = "loop"   src/adalogger.ino 1..1066     single loop(), shifted  *)
(*                    array messageBuffer, array registry                   *)
(*   build = "mutex"  src/adalogger.ino 1067..1962  CANMonitorTask with     *)
(*                    mutexes, vector g_logBuffer, map registry, exactly    *)
(*                    as setup() starts it                                  *)
(*   build = "relay"  the watchdog section of the "mutex" sketch with       *)
(*                    RelayControlTask running and g_robotStateMutex        *)
(*                    created (setup() does neither, see Setup)             *)
(*   build = "ring"   src/unnamed/part_000          loop() + TaskCANTx,     *)
(*                    ring buffer logs[]                                    *)
(*                                                                         *)
(* Time is the millis() clock, advanced by Tick in steps of TickMs.         *)
(* The clock stays far below 2^32, so uint32 differences of timestamps      *)
(* never wrap inside the bounds and are written as plain subtraction.       *)
(***************************************************************************)
EXTENDS Integers, Sequences, FiniteSets, TLC

VARIABLES
    build,              \* which sketch runs
    now,                \* millis()
    \* ---- "mutex"/"relay": robot enable state and the relay task
    g_robotState,       \* RobotEnableState {isEnabled, lastEnableHeartbeatMs, heartbeatActive}
    g_robotStateMutex,  \* "NULL" (never created), "free", or the holding task
    relay,              \* RelayControlTask: pc and locals
    relayPin,           \* level last written to RELAY_PIN
    driven,             \* history: what the relay task last wrote, and for which observed state
    mon,                \* CANMonitorTask: pc and locals
    lastRxBit,          \* history: enable bit of the last controller frame whose handling ended
    lastAppliedBit,     \* history: enable bit of the last controller frame written to g_robotState
    relayToggled,       \* history: the relay level has changed since boot
    \* ---- "mutex": the rest of the sketch
    booted,             \* setup() has returned
    can_started,        \* the TWAI driver is installed and started
    g_stats,            \* CANStats
    g_statsMutex,
    g_devices,          \* std::map<uint32_t, CANDevice>, a function on the tracked identifiers
    g_devicesMutex,
    g_logBuffer,        \* std::vector<LogEntry>
    g_logMutex,
    web,                \* the loop task inside server.handleClient(): pc and the reply being built
    response,           \* the last reply sent to the client
    recoveries,         \* history: calls of twai_initiate_recovery
    rxTotal,            \* history: frames received since boot
    alertsRead,         \* history: alert words read since boot
    seen,               \* history: the frames that reached the registry section, and whether it ran
    \* ---- "ring": src/unnamed/part_000
    logs,               \* CANLog logs[MAX_LOGS], a function on 0..MAX_LOGS-1
    logIndex,
    logCount,
    startTime,
    g_deviceNumber,
    g_uptimeSec,
    lp,                 \* the loop task: pc and locals of loop(), handleData, handleClear
    tx,                 \* TaskCANTx: pc and locals
    received,           \* history: frames twai_receive has delivered
    appended,           \* history: the frames given to the log, in the order their appends began
    everCleared,        \* history: handleClear has run
    clearedAt,          \* history: appends begun when handleClear last zeroed logCount, -1 before
    \* ---- "loop": src/adalogger.ino 1..1066
    messageBuffer,      \* CANMessage messageBuffer[MAX_MESSAGES], a function on 0..MAX_MESSAGES-1
    bufferIndex,
    totalMessages,
    bufferOverflow,
    devices,            \* DeviceInfo devices[MAX_DEVICES], a function on 0..MAX_DEVICES-1
    deviceCount,
    rxCount,
    txCount,
    errCount,
    lastHeartbeat,
    lo,                 \* loop(): pc and the local message, which ends with the iteration
    stored,             \* history: the entries given to messageBuffer since the last handleClear
    observed,           \* history: per identifier, the frames received since the last handleReset
    framesIn,           \* history: frames twai_receive has delivered
    busOffs,            \* history: times the bus was found off
    sends,              \* history: calls of handleSend
    \* ---- "codec": one call of an identifier codec function
    call,               \* the function called, its arguments and what it returned
    \* ---- "canid": the device number of src/unnamed/part_000 and its serial commands
    eeprom,             \* EEPROM byte 0
    serial,             \* the last line the sketch has printed
    helper,             \* TaskCANIDHelper: pc and the line it has read
    saved,              \* history: the value EEPROMSaveCANID last wrote, -1 before
    \* ---- "ring" and "loop"
    page                \* the reply server.send has just passed on

wdVars == <<g_robotState, g_robotStateMutex, relay, relayPin, driven, mon,
            lastRxBit, lastAppliedBit, relayToggled>>

fwVars == <<booted, can_started, g_stats, g_statsMutex, g_devices, g_devicesMutex,
            g_logBuffer, g_logMutex, web, response, recoveries, rxTotal, alertsRead, seen>>

ringVars == <<logs, logIndex, logCount, startTime, g_deviceNumber, g_uptimeSec, lp, tx,
              received, appended, everCleared, clearedAt>>

loopVars == <<messageBuffer, bufferIndex, totalMessages, bufferOverflow, devices, deviceCount,
              rxCount, txCount, errCount, lastHeartbeat, lo, stored, observed, framesIn, busOffs,
              sends>>

codecVars == <<call>>

idVars == <<eeprom, serial, helper, saved>>

vars == <<build, now, wdVars, fwVars, ringVars, loopVars, codecVars, idVars, page>>

----------------------------------------------------------------------------
(* Bounds of the model *)

\* number of clock steps explored
MaxTicks == 2

\* frames received per boot of the "mutex" sketch
MaxFrames == 2

\* alert words read per boot of the "mutex" sketch
MaxAlerts == 1

\* number of clock steps explored in the single-loop sketch
MaxLoopTicks == 1

\* capacity of g_logBuffer (500 in the source)
MAX_LOG_ENTRIES == 2

----------------------------------------------------------------------------
(* Program constants *)

ENABLE_HEARTBEAT_TIMEOUT_MS == 500
FLASH_INTERVAL_MS == 250
ROBOT_CONTROLLER == 1
NI == 1

\* granularity of the model clock: one flash interval
TickMs == FLASH_INTERVAL_MS

----------------------------------------------------------------------------
(* Bit arithmetic on unsigned values *)

Shr(x, n) == x \div (2 ^ n)
Shl(x, n) == x * (2 ^ n)
Low(x, n) == x % (2 ^ n)

----------------------------------------------------------------------------
(* Frames delivered by the TWAI driver. data always holds 8 bytes; the      *)
(* driver zeroes the bytes past data_length_code.                           *)

Payload(b0, b1) == <<b0, b1, 0, 0, 0, 0, 0, 0>>

Frame(id, ext, dlc, data) ==
    [identifier |-> id, extd |-> ext, rtr |-> FALSE,
     data_length_code |-> dlc, data |-> data]

\* 29-bit identifier from its FRC fields
FrcId(dt, man, api, dn) == Shl(dt, 24) + Shl(man, 16) + Shl(api, 6) + dn

NoFrame == Frame(0, FALSE, 0, Payload(0, 0))

\* Frames on the bus in the watchdog runs: roboRIO status frames with enable
\* bit 1, enable bit 0 (other bits set) and an empty payload; two extended
\* frames that miss the controller signature in one field; a standard frame.
WatchdogFrames ==
    { Frame(FrcId(1, 1, 97, 0), TRUE, 8, Payload(1, 0)),
      Frame(FrcId(1, 1, 97, 0), TRUE, 8, Payload(2, 0)),
      Frame(FrcId(1, 1, 97, 0), TRUE, 0, Payload(0, 0)),
      Frame(FrcId(2, 1, 97, 0), TRUE, 8, Payload(1, 0)),
      Frame(FrcId(1, 4, 97, 0), TRUE, 8, Payload(1, 0)),
      Frame(257, FALSE, 8, Payload(1, 0)) }

----------------------------------------------------------------------------
(* Frame codec of the "mutex" sketch *)

\* a split-layout decoder that reads the API index from 5 bits
decodeFRCCANID_WideIndex(canId) ==
    [deviceType   |-> Low(Shr(canId, 24), 5),
     manufacturer |-> Low(Shr(canId, 16), 8),
     apiClass     |-> Low(Shr(canId, 10), 6),
     apiIndex     |-> Low(Shr(canId, 6), 5),
     deviceNumber |-> Low(canId, 6)]

decodeFRCCANID(canId) ==
    [deviceType   |-> Low(Shr(canId, 24), 5),
     manufacturer |-> Low(Shr(canId, 16), 8),
     apiClass     |-> Low(Shr(canId, 10), 6),
     apiIndex     |-> Low(Shr(canId, 6), 4),
     deviceNumber |-> Low(canId, 6)]

----------------------------------------------------------------------------
(* Robot enable signal detection ("mutex" sketch) *)

\* variant: the manufacturer is not compared
isRobotControllerEnableMessage_AnyManufacturer(msg) ==
    IF ~msg.extd THEN FALSE
    ELSE decodeFRCCANID(msg.identifier).deviceType = ROBOT_CONTROLLER

isRobotControllerEnableMessage(msg) ==
    IF ~msg.extd THEN FALSE
    ELSE LET id == decodeFRCCANID(msg.identifier)
         IN  id.deviceType = ROBOT_CONTROLLER /\ id.manufacturer = NI

\* variant: any non-zero first byte counts as enabled
extractEnableState_AnyBit(msg) ==
    IF msg.data_length_code > 0 THEN msg.data[1] # 0 ELSE FALSE

\* variant: an empty payload counts as enabled
extractEnableState_EmptyEnabled(msg) ==
    IF msg.data_length_code > 0 THEN (msg.data[1] % 2) # 0 ELSE TRUE

extractEnableState(msg) ==
    IF msg.data_length_code > 0 THEN (msg.data[1] % 2) # 0 ELSE FALSE

\* variant: the stored flag is trusted, the age is not checked
HeartbeatFresh_TrustsFlag(state, t) == state.heartbeatActive

\* variant: only the age is checked, the stored flag is ignored
HeartbeatFresh_AgeOnly(state, t) ==
    (t - state.lastEnableHeartbeatMs) < ENABLE_HEARTBEAT_TIMEOUT_MS

\* the condition of RelayControlTask's if: stored flag and age of the heartbeat
HeartbeatFresh(state, t) ==
    /\ state.heartbeatActive
    /\ (t - state.lastEnableHeartbeatMs) < ENABLE_HEARTBEAT_TIMEOUT_MS

\* the three stores CANMonitorTask makes under g_robotStateMutex
StoreEnableState(enableState, t) ==
    [isEnabled |-> enableState, lastEnableHeartbeatMs |-> t, heartbeatActive |-> TRUE]

\* g_robotState = {false, 0, false}
InitialRobotState ==
    [isEnabled |-> FALSE, lastEnableHeartbeatMs |-> 0, heartbeatActive |-> FALSE]

----------------------------------------------------------------------------
(* What the claims call the externally observed watchdog state, and the     *)
(* enable bit a frame carries (-1: the payload is empty).                   *)

ObservedState(state, t) ==
    IF ~state.heartbeatActive
          \/ (t - state.lastEnableHeartbeatMs) >= ENABLE_HEARTBEAT_TIMEOUT_MS
    THEN "HEARTBEAT_LOST"
    ELSE IF state.isEnabled THEN "ENABLED" ELSE "DISABLED"

EnableBitOf(msg) == IF msg.data_length_code > 0 THEN msg.data[1] % 2 ELSE -1

\* value of lastRxBit / lastAppliedBit before any controller frame
NoBitYet == 0 - 2

\* the controller signature, read off the identifier bits
ControllerSignature(msg) ==
    /\ msg.extd
    /\ (msg.identifier \div 16777216) % 32 = 1
    /\ (msg.identifier \div 65536) % 256 = 1

----------------------------------------------------------------------------
(* The millis() clock *)

\* A step of the clock is longer than any stretch of a sketch between two
\* blocking calls: in the whole sketches it passes while the tasks wait, the
\* monitor or beacon task in vTaskDelay and the loop task outside a handler.
Tick ==
    /\ now + TickMs <= MaxTicks * TickMs
    /\ build = "mutex" => (mon.pc = "alerts" /\ web.pc = "idle")
    /\ build = "ring" => (tx.pc = "sleep" /\ lp.pc = "client")
    /\ build = "canid" => tx.pc = "sleep"
    /\ build = "loop" => (lo.pc = "client" /\ now + TickMs <= MaxLoopTicks * TickMs)
    /\ now' = now + TickMs
    /\ UNCHANGED <<build, ringVars, loopVars, codecVars, idVars, page, wdVars, fwVars>>

----------------------------------------------------------------------------
(* RelayControlTask: one loop iteration is take (or time out), sample,      *)
(* drive; vTaskDelay(10) ends the iteration.                                *)

\* xSemaphoreTake(g_robotStateMutex, 10 ms) succeeds
RelayTake ==
    /\ build = "relay"
    /\ relay.pc = "take"
    /\ g_robotStateMutex = "free"
    /\ g_robotStateMutex' = "relay"
    /\ relay' = [relay EXCEPT !.pc = "sample", !.shouldBeOn = FALSE, !.shouldFlash = FALSE]
    /\ UNCHANGED <<build, ringVars, loopVars, codecVars, idVars, page, fwVars, now, g_robotState, relayPin, driven, mon, lastRxBit,
                   lastAppliedBit, relayToggled>>

\* a relay task that reads the enable flag without the mutex when its take
\* times out
RelayTakeTimeout_ReadsUnlocked ==
    /\ build = "relay"
    /\ relay.pc = "take"
    /\ g_robotStateMutex = "monitor"
    /\ relay' = [relay EXCEPT !.pc = "drive", !.shouldBeOn = g_robotState.isEnabled,
                              !.shouldFlash = FALSE,
                              !.took = FALSE, !.obs = ObservedState(g_robotState, now)]
    /\ UNCHANGED <<build, ringVars, loopVars, codecVars, idVars, page, fwVars, now, g_robotState, g_robotStateMutex, relayPin, driven, mon,
                   lastRxBit, lastAppliedBit, relayToggled>>

\* xSemaphoreTake times out: the monitor task held the mutex for the whole wait
RelayTakeTimeout ==
    /\ build = "relay"
    /\ relay.pc = "take"
    /\ g_robotStateMutex = "monitor"
    /\ relay' = [relay EXCEPT !.pc = "drive", !.shouldBeOn = FALSE, !.shouldFlash = FALSE,
                              !.took = FALSE, !.obs = ObservedState(g_robotState, now)]
    /\ UNCHANGED <<build, ringVars, loopVars, codecVars, idVars, page, fwVars, now, g_robotState, g_robotStateMutex, relayPin, driven, mon,
                   lastRxBit, lastAppliedBit, relayToggled>>

\* the body of the critical section, and xSemaphoreGive
RelaySample ==
    /\ build = "relay"
    /\ relay.pc = "sample"
    /\ LET fresh == HeartbeatFresh(g_robotState, now)
       IN  relay' = [relay EXCEPT
                !.pc = "drive",
                !.timeSinceHeartbeat = now - g_robotState.lastEnableHeartbeatMs,
                !.shouldBeOn = fresh /\ g_robotState.isEnabled,
                !.shouldFlash = ~fresh,
                !.took = TRUE,
                !.obs = ObservedState(g_robotState, now)]
    /\ g_robotStateMutex' = "free"
    /\ UNCHANGED <<build, ringVars, loopVars, codecVars, idVars, page, fwVars, now, g_robotState, relayPin, driven, mon, lastRxBit,
                   lastAppliedBit, relayToggled>>

\* the locals of one iteration go out of scope at its end
EndIteration(r) ==
    [r EXCEPT !.pc = "take", !.shouldBeOn = FALSE, !.shouldFlash = FALSE,
              !.timeSinceHeartbeat = 0, !.took = FALSE, !.obs = "NONE"]

\* the flash / solid output, then vTaskDelay
RelayDrive ==
    /\ build = "relay"
    /\ relay.pc = "drive"
    /\ IF relay.shouldFlash
       THEN IF now - relay.lastFlashToggle >= FLASH_INTERVAL_MS
            THEN /\ relay' = [EndIteration(relay) EXCEPT
                                           !.flashState = ~relay.flashState,
                                           !.lastFlashToggle = now]
                 /\ relayPin' = ~relay.flashState
            ELSE /\ relay' = EndIteration(relay)
                 /\ relayPin' = relayPin
       ELSE /\ relay' = [EndIteration(relay) EXCEPT !.flashState = FALSE,
                                                    !.lastFlashToggle = now]
            /\ relayPin' = relay.shouldBeOn
    /\ driven' = [obs |-> relay.obs, took |-> relay.took,
                  solid |-> ~relay.shouldFlash, level |-> relayPin']
    /\ relayToggled' = (relayToggled \/ relayPin' # relayPin)
    /\ UNCHANGED <<build, ringVars, loopVars, codecVars, idVars, page, fwVars, now, g_robotState, g_robotStateMutex, mon, lastRxBit, lastAppliedBit>>

----------------------------------------------------------------------------
(* State of the "mutex" sketch outside the watchdog *)

\* the variables of fwVars without what CANMonitorTask's receive counts
fwButRx == <<booted, can_started, g_stats, g_statsMutex, g_devices, g_devicesMutex,
             g_logBuffer, g_logMutex, web, response, recoveries, alertsRead>>

\* CANStats g_stats = {0}
InitialStats ==
    [totalMessages |-> 0, busOffErrors |-> 0, arbLostErrors |-> 0, rxQueueFull |-> 0,
     txQueueFull |-> 0, rxErrors |-> 0, txErrors |-> 0, startTimeMs |-> 0]

\* the empty std::map
EmptyDevices == [id \in {} |-> 0]

\* the loop task outside any handler
WebIdle == [pc |-> "idle", json |-> <<>>]

NoResponse == [kind |-> "none", body |-> <<>>]

\* Frames on the bus in the runs of the whole sketch: a roboRIO status frame,
\* a frame of a motor controller, a standard frame.
MutexFrames ==
    { Frame(FrcId(1, 1, 97, 0), TRUE, 8, Payload(1, 0)),
      Frame(FrcId(2, 4, 5, 1), TRUE, 2, Payload(3, 1)),
      Frame(257, FALSE, 0, Payload(0, 0)) }

BusFrames == IF build = "relay" THEN WatchdogFrames ELSE MutexFrames

\* alert words twai_read_alerts returns
AlertWords ==
    { {"BUS_OFF", "ARB_LOST"}, {"RX_QUEUE_FULL", "RX_DATA", "TX_FAILED"} }

Bump(flag, word, n) == IF flag \in word THEN n + 1 ELSE n

\* the five counters of the alert section
CountAlerts(stats, word) ==
    [stats EXCEPT
        !.busOffErrors  = Bump("BUS_OFF", word, @),
        !.arbLostErrors = Bump("ARB_LOST", word, @),
        !.rxQueueFull   = Bump("RX_QUEUE_FULL", word, @),
        !.txQueueFull   = Bump("TX_FAILED", word, @),
        !.rxErrors      = Bump("RX_DATA", word, @)]

\* the body of addLogEntry under g_logMutex
LogEntryOf(msg, isError, errMsg, t) ==
    [timestamp |-> t, canId |-> msg.identifier, isExtended |-> msg.extd,
     isRTR |-> msg.rtr, dlc |-> msg.data_length_code, data |-> msg.data,
     isError |-> isError, errorMsg |-> errMsg]

PushLog(buf, entry) ==
    Append(IF Len(buf) >= MAX_LOG_ENTRIES THEN Tail(buf) ELSE buf, entry)

\* lastData: the payload bytes below dlc, little endian; the 64-bit word is
\* kept as its eight bytes, byte i at position i + 1
PackData(data, dlc) == [i \in 1..8 |-> IF i <= dlc THEN data[i] ELSE 0]

\* a device tracking section that also moves first-seen on every frame
TrackDevice_MovesFirstSeen(devs, msg, t) ==
    LET id == msg.identifier
    IN  [x \in DOMAIN devs \cup {id} |->
            IF x = id
            THEN [canId |-> id, frcId |-> decodeFRCCANID(id),
                  messageCount |-> IF id \in DOMAIN devs THEN devs[id].messageCount + 1 ELSE 1,
                  firstSeenMs |-> t, lastSeenMs |-> t, isExtended |-> msg.extd,
                  lastDLC |-> msg.data_length_code,
                  lastData |-> PackData(msg.data, msg.data_length_code)]
            ELSE devs[x]]

\* the device tracking section under g_devicesMutex
TrackDevice(devs, msg, t) ==
    LET id == msg.identifier
    IN  IF id \notin DOMAIN devs
        THEN [x \in DOMAIN devs \cup {id} |->
                IF x = id
                THEN [canId |-> id, frcId |-> decodeFRCCANID(id), messageCount |-> 1,
                      firstSeenMs |-> t, lastSeenMs |-> t, isExtended |-> msg.extd,
                      lastDLC |-> msg.data_length_code,
                      lastData |-> PackData(msg.data, msg.data_length_code)]
                ELSE devs[x]]
        ELSE [devs EXCEPT ![id] =
                [@ EXCEPT !.messageCount = @ + 1,
                          !.lastSeenMs = t,
                          !.lastDLC = msg.data_length_code,
                          !.lastData = PackData(msg.data, msg.data_length_code)]]

----------------------------------------------------------------------------
(* CANMonitorTask. Its critical sections on the statistics, registry and    *)
(* log mutexes are single steps: the task has the higher priority on its    *)
(* core and does not block inside them, so the loop task never runs while   *)
(* it holds one. The enable section is stepwise, the relay task's core and  *)
(* priority being unknown.                                                  *)

\* where the task goes after the enable section
AfterRobot == IF build = "relay" THEN "receive" ELSE "stats"

\* twai_read_alerts finds nothing pending
MonNoAlerts ==
    /\ build = "mutex" /\ booted /\ can_started
    /\ mon.pc = "alerts"
    /\ mon' = [mon EXCEPT !.pc = "receive"]
    /\ UNCHANGED <<build, ringVars, loopVars, codecVars, idVars, page, fwVars, now, g_robotState, g_robotStateMutex, relay, relayPin,
                   driven, lastRxBit, lastAppliedBit, relayToggled>>

\* twai_read_alerts returns an alert word
MonReadAlerts ==
    /\ build = "mutex" /\ booted /\ can_started
    /\ mon.pc = "alerts"
    /\ alertsRead < MaxAlerts
    /\ \E word \in AlertWords : mon' = [mon EXCEPT !.pc = "alert_stats", !.alerts = word]
    /\ alertsRead' = alertsRead + 1
    /\ UNCHANGED <<build, ringVars, loopVars, codecVars, idVars, page, now, g_robotState, g_robotStateMutex, relay, relayPin,
                   driven, lastRxBit, lastAppliedBit, relayToggled,
                   booted, can_started, g_stats, g_statsMutex, g_devices, g_devicesMutex,
                   g_logBuffer, g_logMutex, web, response, recoveries, rxTotal, seen>>

AfterAlertStats == IF "BUS_OFF" \in mon.alerts THEN "busoff" ELSE "receive"

\* the alert counters under g_statsMutex
MonAlertStats ==
    /\ mon.pc = "alert_stats"
    /\ g_statsMutex = "free"
    /\ g_stats' = CountAlerts(g_stats, mon.alerts)
    /\ mon' = [mon EXCEPT !.pc = AfterAlertStats]
    /\ UNCHANGED <<build, ringVars, loopVars, codecVars, idVars, page, now, g_robotState, g_robotStateMutex, relay, relayPin,
                   driven, lastRxBit, lastAppliedBit, relayToggled,
                   booted, can_started, g_statsMutex, g_devices, g_devicesMutex,
                   g_logBuffer, g_logMutex, web, response, recoveries, rxTotal, alertsRead, seen>>

\* g_statsMutex not taken within 10 ms: the alert is not counted
MonAlertStatsTimeout ==
    /\ mon.pc = "alert_stats"
    /\ g_statsMutex = "web"
    /\ mon' = [mon EXCEPT !.pc = AfterAlertStats]
    /\ UNCHANGED <<build, ringVars, loopVars, codecVars, idVars, page, fwVars, now, g_robotState, g_robotStateMutex, relay, relayPin,
                   driven, lastRxBit, lastAppliedBit, relayToggled>>

\* bus off: addLogEntry(dummy, true, "BUS OFF ERROR"), twai_initiate_recovery
MonBusOff ==
    /\ mon.pc = "busoff"
    /\ g_logMutex = "free"
    /\ g_logBuffer' = PushLog(g_logBuffer, LogEntryOf(NoFrame, TRUE, "BUS OFF ERROR", now))
    /\ recoveries' = recoveries + 1
    /\ mon' = [mon EXCEPT !.pc = "receive"]
    /\ UNCHANGED <<build, ringVars, loopVars, codecVars, idVars, page, now, g_robotState, g_robotStateMutex, relay, relayPin,
                   driven, lastRxBit, lastAppliedBit, relayToggled,
                   booted, can_started, g_stats, g_statsMutex, g_devices, g_devicesMutex,
                   g_logMutex, web, response, rxTotal, alertsRead, seen>>

\* a bus-off section that leaves the recovery out when the entry is not logged
MonBusOffLogTimeout_NoRecovery ==
    /\ mon.pc = "busoff"
    /\ g_logMutex = "web"
    /\ mon' = [mon EXCEPT !.pc = "receive"]
    /\ UNCHANGED <<build, ringVars, loopVars, codecVars, idVars, page, fwVars, now, g_robotState, g_robotStateMutex, relay, relayPin,
                   driven, lastRxBit, lastAppliedBit, relayToggled>>

\* bus off while g_logMutex is not taken within 10 ms: recovery only
MonBusOffLogTimeout ==
    /\ mon.pc = "busoff"
    /\ g_logMutex = "web"
    /\ recoveries' = recoveries + 1
    /\ mon' = [mon EXCEPT !.pc = "receive"]
    /\ UNCHANGED <<build, ringVars, loopVars, codecVars, idVars, page, now, g_robotState, g_robotStateMutex, relay, relayPin,
                   driven, lastRxBit, lastAppliedBit, relayToggled,
                   booted, can_started, g_stats, g_statsMutex, g_devices, g_devicesMutex,
                   g_logBuffer, g_logMutex, web, response, rxTotal, alertsRead, seen>>

\* twai_receive returns a frame; isRobotControllerEnableMessage, extractEnableState
MonReceive ==
    /\ \/ build = "relay"
       \/ build = "mutex" /\ booted /\ can_started /\ rxTotal < MaxFrames
    /\ mon.pc = "receive"
    /\ \E f \in BusFrames :
          mon' = [mon EXCEPT
                    !.msg = f,
                    !.applied = FALSE,
                    !.enableState = IF isRobotControllerEnableMessage(f)
                                    THEN extractEnableState(f) ELSE FALSE,
                    !.pc = IF isRobotControllerEnableMessage(f)
                           THEN "robot_take" ELSE AfterRobot]
    /\ rxTotal' = IF build = "mutex" THEN rxTotal + 1 ELSE rxTotal
    /\ UNCHANGED <<build, ringVars, loopVars, codecVars, idVars, page, fwButRx, seen, now,
                   g_robotState, g_robotStateMutex, relay, relayPin,
                   driven, lastRxBit, lastAppliedBit, relayToggled>>

\* twai_receive times out after 10 ms; vTaskDelay(1)
MonReceiveNone ==
    /\ build = "mutex" /\ booted /\ can_started
    /\ mon.pc = "receive"
    /\ mon' = [mon EXCEPT !.pc = "alerts"]
    /\ UNCHANGED <<build, ringVars, loopVars, codecVars, idVars, page, fwVars, now, g_robotState, g_robotStateMutex, relay, relayPin,
                   driven, lastRxBit, lastAppliedBit, relayToggled>>

\* xSemaphoreTake(g_robotStateMutex, 5 ms) succeeds
MonRobotTake ==
    /\ mon.pc = "robot_take"
    /\ g_robotStateMutex = "free"
    /\ g_robotStateMutex' = "monitor"
    /\ mon' = [mon EXCEPT !.pc = "robot_update"]
    /\ UNCHANGED <<build, ringVars, loopVars, codecVars, idVars, page, fwVars, now, g_robotState, relay, relayPin, driven, lastRxBit,
                   lastAppliedBit, relayToggled>>

\* xSemaphoreTake times out: the update for this frame is skipped
MonRobotTakeTimeout ==
    /\ mon.pc = "robot_take"
    /\ g_robotStateMutex = "relay"
    /\ mon' = [mon EXCEPT !.pc = AfterRobot, !.enableState = FALSE]
    /\ lastRxBit' = EnableBitOf(mon.msg)
    /\ UNCHANGED <<build, ringVars, loopVars, codecVars, idVars, page, fwVars, now, g_robotState, g_robotStateMutex, relay, relayPin,
                   driven, lastAppliedBit, relayToggled>>

\* the three stores, and xSemaphoreGive
MonRobotUpdate ==
    /\ mon.pc = "robot_update"
    /\ g_robotState' = StoreEnableState(mon.enableState, now)
    /\ g_robotStateMutex' = "free"
    /\ mon' = [mon EXCEPT !.pc = AfterRobot, !.applied = TRUE, !.enableState = FALSE]
    /\ lastRxBit' = EnableBitOf(mon.msg)
    /\ lastAppliedBit' = EnableBitOf(mon.msg)
    /\ UNCHANGED <<build, ringVars, loopVars, codecVars, idVars, page, fwVars, now, relay, relayPin, driven, relayToggled>>

\* g_stats.totalMessages++ under g_statsMutex
MonStats ==
    /\ mon.pc = "stats"
    /\ g_statsMutex = "free"
    /\ g_stats' = [g_stats EXCEPT !.totalMessages = @ + 1]
    /\ mon' = [mon EXCEPT !.pc = "devices"]
    /\ UNCHANGED <<build, ringVars, loopVars, codecVars, idVars, page, now, g_robotState, g_robotStateMutex, relay, relayPin,
                   driven, lastRxBit, lastAppliedBit, relayToggled,
                   booted, can_started, g_statsMutex, g_devices, g_devicesMutex,
                   g_logBuffer, g_logMutex, web, response, recoveries, rxTotal, alertsRead, seen>>

\* g_statsMutex not taken within 5 ms: the frame is not counted
MonStatsTimeout ==
    /\ mon.pc = "stats"
    /\ g_statsMutex = "web"
    /\ mon' = [mon EXCEPT !.pc = "devices"]
    /\ UNCHANGED <<build, ringVars, loopVars, codecVars, idVars, page, fwVars, now, g_robotState, g_robotStateMutex, relay, relayPin,
                   driven, lastRxBit, lastAppliedBit, relayToggled>>

\* the device tracking section under g_devicesMutex
MonDevices ==
    /\ mon.pc = "devices"
    /\ g_devicesMutex = "free"
    /\ g_devices' = TrackDevice(g_devices, mon.msg, now)
    /\ seen' = Append(seen, [id |-> mon.msg.identifier, t |-> now, tracked |-> TRUE])
    /\ mon' = [mon EXCEPT !.pc = "log"]
    /\ UNCHANGED <<build, ringVars, loopVars, codecVars, idVars, page, now, g_robotState, g_robotStateMutex, relay, relayPin,
                   driven, lastRxBit, lastAppliedBit, relayToggled,
                   booted, can_started, g_stats, g_statsMutex, g_devicesMutex,
                   g_logBuffer, g_logMutex, web, response, recoveries, rxTotal, alertsRead>>

\* a registry section that updates the registry without holding its lock
MonDevicesTimeout_TracksUnlocked ==
    /\ mon.pc = "devices"
    /\ g_devicesMutex = "web"
    /\ g_devices' = TrackDevice(g_devices, mon.msg, now)
    /\ seen' = Append(seen, [id |-> mon.msg.identifier, t |-> now, tracked |-> TRUE])
    /\ mon' = [mon EXCEPT !.pc = "log"]
    /\ UNCHANGED <<build, ringVars, loopVars, codecVars, idVars, page, now, g_robotState, g_robotStateMutex, relay, relayPin,
                   driven, lastRxBit, lastAppliedBit, relayToggled,
                   booted, can_started, g_stats, g_statsMutex, g_devicesMutex,
                   g_logBuffer, g_logMutex, web, response, recoveries, rxTotal, alertsRead>>

\* g_devicesMutex not taken within 5 ms: the frame is not tracked
MonDevicesTimeout ==
    /\ mon.pc = "devices"
    /\ g_devicesMutex = "web"
    /\ seen' = Append(seen, [id |-> mon.msg.identifier, t |-> now, tracked |-> FALSE])
    /\ mon' = [mon EXCEPT !.pc = "log"]
    /\ UNCHANGED <<build, ringVars, loopVars, codecVars, idVars, page, fwButRx, rxTotal, now,
                   g_robotState, g_robotStateMutex, relay, relayPin,
                   driven, lastRxBit, lastAppliedBit, relayToggled>>

\* addLogEntry(msg), then vTaskDelay(1)
MonLog ==
    /\ mon.pc = "log"
    /\ g_logMutex = "free"
    /\ g_logBuffer' = PushLog(g_logBuffer, LogEntryOf(mon.msg, FALSE, "", now))
    /\ mon' = [mon EXCEPT !.pc = "alerts"]
    /\ UNCHANGED <<build, ringVars, loopVars, codecVars, idVars, page, now, g_robotState, g_robotStateMutex, relay, relayPin,
                   driven, lastRxBit, lastAppliedBit, relayToggled,
                   booted, can_started, g_stats, g_statsMutex, g_devices, g_devicesMutex,
                   g_logMutex, web, response, recoveries, rxTotal, alertsRead, seen>>

\* addLogEntry: g_logMutex not taken within 10 ms, the frame is not logged
MonLogTimeout ==
    /\ mon.pc = "log"
    /\ g_logMutex = "web"
    /\ mon' = [mon EXCEPT !.pc = "alerts"]
    /\ UNCHANGED <<build, ringVars, loopVars, codecVars, idVars, page, fwVars, now, g_robotState, g_robotStateMutex, relay, relayPin,
                   driven, lastRxBit, lastAppliedBit, relayToggled>>

----------------------------------------------------------------------------
(* The handlers of the "mutex" sketch, run by the loop task inside          *)
(* server.handleClient(). A handler's xSemaphoreTake finds its mutex free:  *)
(* CANMonitorTask never holds one while the loop task runs.                 *)

\* handleAPIStatus: xSemaphoreTake(g_statsMutex, 50 ms)
WebStatusTake ==
    /\ build = "mutex" /\ booted
    /\ web.pc = "idle"
    /\ g_statsMutex = "free"
    /\ g_statsMutex' = "web"
    /\ web' = [pc |-> "status_stats", json |-> <<>>]
    /\ UNCHANGED <<build, ringVars, loopVars, codecVars, idVars, page, now, wdVars, booted, can_started, g_stats, g_devices,
                   g_devicesMutex, g_logBuffer, g_logMutex, response, recoveries,
                   rxTotal, alertsRead, seen>>

\* the statistics fields of the reply
StatusFields(stats, t) ==
    [totalMessages |-> stats.totalMessages,
     busOffErrors  |-> stats.busOffErrors,
     arbLostErrors |-> stats.arbLostErrors,
     rxQueueFull   |-> stats.rxQueueFull,
     txQueueFull   |-> stats.txQueueFull,
     totalErrors   |-> stats.busOffErrors + stats.arbLostErrors
                         + stats.rxQueueFull + stats.txQueueFull,
     uptimeMs      |-> t - stats.startTimeMs]

\* a handleAPIStatus that gives g_statsMutex only after the registry section
WebStatusStats_KeepsLock ==
    /\ web.pc = "status_stats"
    /\ web' = [pc |-> "status_devices_take", json |-> <<StatusFields(g_stats, now)>>]
    /\ UNCHANGED <<build, ringVars, loopVars, codecVars, idVars, page, now, wdVars, booted, can_started, g_stats, g_statsMutex,
                   g_devices, g_devicesMutex, g_logBuffer, g_logMutex, response, recoveries,
                   rxTotal, alertsRead, seen>>

\* handleAPIStatus: the statistics fields, xSemaphoreGive
WebStatusStats ==
    /\ web.pc = "status_stats"
    /\ web' = [pc |-> "status_devices_take", json |-> <<StatusFields(g_stats, now)>>]
    /\ g_statsMutex' = "free"
    /\ UNCHANGED <<build, ringVars, loopVars, codecVars, idVars, page, now, wdVars, booted, can_started, g_stats, g_devices,
                   g_devicesMutex, g_logBuffer, g_logMutex, response, recoveries,
                   rxTotal, alertsRead, seen>>

\* handleAPIStatus: xSemaphoreTake(g_devicesMutex, 50 ms)
WebStatusDevicesTake ==
    /\ web.pc = "status_devices_take"
    /\ g_devicesMutex = "free"
    /\ g_devicesMutex' = "web"
    /\ web' = [web EXCEPT !.pc = "status_devices"]
    /\ UNCHANGED <<build, ringVars, loopVars, codecVars, idVars, page, now, wdVars, booted, can_started, g_stats, g_statsMutex,
                   g_devices, g_logBuffer, g_logMutex, response, recoveries,
                   rxTotal, alertsRead, seen>>

\* handleAPIStatus: deviceCount, xSemaphoreGive, server.send
WebStatusDevices ==
    /\ web.pc = "status_devices"
    /\ response' = [kind |-> "status",
                    body |-> Append(web.json, [deviceCount |-> Cardinality(DOMAIN g_devices)])]
    /\ g_devicesMutex' = "free"
    /\ web' = [pc |-> "sent", json |-> <<>>]
    /\ UNCHANGED <<build, ringVars, loopVars, codecVars, idVars, page, now, wdVars, booted, can_started, g_stats, g_statsMutex,
                   g_devices, g_logBuffer, g_logMutex, recoveries, rxTotal, alertsRead, seen>>

\* handleAPIDevices: xSemaphoreTake(g_devicesMutex, 100 ms)
WebDevicesTake ==
    /\ build = "mutex" /\ booted
    /\ web.pc = "idle"
    /\ g_devicesMutex = "free"
    /\ g_devicesMutex' = "web"
    /\ web' = [pc |-> "devices", json |-> <<>>]
    /\ UNCHANGED <<build, ringVars, loopVars, codecVars, idVars, page, now, wdVars, booted, can_started, g_stats, g_statsMutex,
                   g_devices, g_logBuffer, g_logMutex, response, recoveries,
                   rxTotal, alertsRead, seen>>

\* one object of the devices reply
DeviceFields(dev) ==
    [canId |-> dev.canId, deviceType |-> dev.frcId.deviceType,
     manufacturer |-> dev.frcId.manufacturer, deviceNumber |-> dev.frcId.deviceNumber,
     messageCount |-> dev.messageCount, lastSeenMs |-> dev.lastSeenMs]

\* the identifiers of a set in increasing order, as std::map iterates
RECURSIVE InOrder(_)
InOrder(ids) ==
    IF ids = {} THEN <<>>
    ELSE LET least == CHOOSE x \in ids : \A y \in ids : x <= y
         IN  <<least>> \o InOrder(ids \ {least})

DevicesReply(devs) ==
    LET order == InOrder(DOMAIN devs)
    IN  [i \in 1..Len(order) |-> DeviceFields(devs[order[i]])]

\* handleAPIDevices: the loop over g_devices, xSemaphoreGive, server.send
WebDevices ==
    /\ web.pc = "devices"
    /\ response' = [kind |-> "devices", body |-> DevicesReply(g_devices)]
    /\ g_devicesMutex' = "free"
    /\ web' = [pc |-> "sent", json |-> <<>>]
    /\ UNCHANGED <<build, ringVars, loopVars, codecVars, idVars, page, now, wdVars, booted, can_started, g_stats, g_statsMutex,
                   g_devices, g_logBuffer, g_logMutex, recoveries, rxTotal, alertsRead, seen>>

\* handleLogsDownload: xSemaphoreTake(g_logMutex, 100 ms)
WebDownloadTake ==
    /\ build = "mutex" /\ booted
    /\ web.pc = "idle"
    /\ g_logMutex = "free"
    /\ g_logMutex' = "web"
    /\ web' = [pc |-> "download", json |-> <<>>]
    /\ UNCHANGED <<build, ringVars, loopVars, codecVars, idVars, page, now, wdVars, booted, can_started, g_stats, g_statsMutex,
                   g_devices, g_devicesMutex, g_logBuffer, response, recoveries,
                   rxTotal, alertsRead, seen>>

\* one line of the CSV: all 8 data bytes are printed, whatever dlc is
CsvLine(entry) ==
    <<entry.timestamp, entry.canId, entry.isExtended, entry.isRTR, entry.dlc,
      entry.data, entry.isError, entry.errorMsg>>

CsvOf(buf) == [i \in 1..Len(buf) |-> CsvLine(buf[i])]

\* handleLogsDownload: the loop over g_logBuffer, xSemaphoreGive, server.send
WebDownload ==
    /\ web.pc = "download"
    /\ response' = [kind |-> "csv", body |-> CsvOf(g_logBuffer)]
    /\ g_logMutex' = "free"
    /\ web' = [pc |-> "sent", json |-> <<>>]
    /\ UNCHANGED <<build, ringVars, loopVars, codecVars, idVars, page, now, wdVars, booted, can_started, g_stats, g_statsMutex,
                   g_devices, g_devicesMutex, g_logBuffer, recoveries, rxTotal, alertsRead, seen>>

\* handleLogsClear: xSemaphoreTake(g_logMutex, 100 ms)
WebClearTake ==
    /\ build = "mutex" /\ booted
    /\ web.pc = "idle"
    /\ g_logMutex = "free"
    /\ g_logMutex' = "web"
    /\ web' = [pc |-> "clear", json |-> <<>>]
    /\ UNCHANGED <<build, ringVars, loopVars, codecVars, idVars, page, now, wdVars, booted, can_started, g_stats, g_statsMutex,
                   g_devices, g_devicesMutex, g_logBuffer, response, recoveries,
                   rxTotal, alertsRead, seen>>

\* handleLogsClear: g_logBuffer.clear(), xSemaphoreGive, server.send
WebClear ==
    /\ web.pc = "clear"
    /\ g_logBuffer' = <<>>
    /\ response' = [kind |-> "cleared", body |-> <<>>]
    /\ g_logMutex' = "free"
    /\ web' = [pc |-> "sent", json |-> <<>>]
    /\ UNCHANGED <<build, ringVars, loopVars, codecVars, idVars, page, now, wdVars, booted, can_started, g_stats, g_statsMutex,
                   g_devices, g_devicesMutex, recoveries, rxTotal, alertsRead, seen>>

\* the handler returns to loop() after server.send; the reply has left
WebReturn ==
    /\ web.pc = "sent"
    /\ web' = WebIdle
    /\ response' = NoResponse
    /\ UNCHANGED <<build, ringVars, loopVars, codecVars, idVars, page, now, wdVars, booted, can_started, g_stats, g_statsMutex,
                   g_devices, g_devicesMutex, g_logBuffer, g_logMutex, recoveries,
                   rxTotal, alertsRead, seen>>

----------------------------------------------------------------------------
(* The "ring" sketch, src/unnamed/part_000: data and pure functions *)

DEVICE_ID == 10
MANUFACTURER_ID == 8
DEFAULT_DEVICE_NUMBER == 10
API_TX_STATUS == 416
API_TX_HEARTBEAT == 417
SOFTWARE_VER == 1

\* capacity of logs[] (500 in the source)
MAX_LOGS == 2

RECURSIVE BitOr(_, _)
BitOr(a, b) ==
    IF a = 0 THEN b
    ELSE IF b = 0 THEN a
    ELSE (IF a % 2 = 1 \/ b % 2 = 1 THEN 1 ELSE 0) + 2 * BitOr(a \div 2, b \div 2)

\* an encode_id that keeps eight bits of the device number
encode_id_WideNumber(dt, man, api, dn) ==
    BitOr(BitOr(Shl(dt, 24), Shl(man, 16)), BitOr(Shl(api, 6), Low(dn, 8)))

encode_id(dt, man, api, dn) ==
    BitOr(BitOr(Shl(dt, 24), Shl(man, 16)), BitOr(Shl(api, 6), Low(dn, 6)))

\* a decode_id that reads the API field as eight bits
decode_id_NarrowApi(id) ==
    [dt  |-> Low(Shr(id, 24), 8),
     man |-> Low(Shr(id, 16), 8),
     api |-> Low(Shr(id, 6), 8),
     dn  |-> Low(id, 6)]

decode_id(id) ==
    [dt  |-> Low(Shr(id, 24), 8),
     man |-> Low(Shr(id, 16), 8),
     api |-> Low(Shr(id, 6), 10),
     dn  |-> Low(id, 6)]

make_can_id(api, deviceNumber) == encode_id(DEVICE_ID, MANUFACTURER_ID, api, deviceNumber)

getAPIClassName(apiClass) ==
    CASE apiClass = 0 -> "RobotCtrl"
      [] apiClass = 2 -> "Motor"
      [] apiClass = 3 -> "Relay"
      [] apiClass = 4 -> "Gyro"
      [] apiClass = 5 -> "Accel"
      [] apiClass = 6 -> "Ultrasonic"
      [] apiClass = 7 -> "GearTooth"
      [] apiClass = 8 -> "Sensor"
      [] apiClass = 9 -> "IOConfig"
      [] apiClass = 10 -> "Power"
      [] apiClass = 31 -> "Firmware"
      [] apiClass = 389 -> "RX_CONTROL"
      [] apiClass = 390 -> "RX_STATUS"
      [] apiClass = 405 -> "TX_INPUTS"
      [] apiClass = 406 -> "TX_RESET"
      [] apiClass = API_TX_STATUS -> "LOGGER_STATUS"
      [] apiClass = API_TX_HEARTBEAT -> "LOGGER_HB"
      [] OTHER -> <<"0x", apiClass>>

NoBytes == <<0, 0, 0, 0, 0, 0, 0, 0>>

\* a slot of the zero-initialised array
EmptyLog ==
    [id |-> 0, data |-> NoBytes, len |-> 0, timestamp |-> 0,
     is_extended |-> FALSE, is_tx |-> FALSE]

EmptyLogs == [i \in 0..(MAX_LOGS - 1) |-> EmptyLog]

\* Frames on the bus in the runs of the "ring" sketch: a frame of another
\* logger-class device and a standard frame.
RingFrames ==
    { Frame(encode_id(DEVICE_ID, MANUFACTURER_ID, 2, 3), TRUE, 2, Payload(3, 1)),
      Frame(257, FALSE, 1, Payload(7, 0)) }

\* the table row handleData writes for the fields it has read: the type, API
\* and device number columns come from the identifier read for decode_id,
\* the data column holds the first len bytes
RowOf(is_tx, timestamp, id, is_extended, idAgain, len, data) ==
    LET d == decode_id(idAgain)
    IN  [dir  |-> IF is_tx THEN "TX" ELSE "RX",
         time |-> timestamp,
         id   |-> id,
         type |-> IF ~is_extended THEN "Std"
                  ELSE IF d.dt = DEVICE_ID /\ d.man = MANUFACTURER_ID THEN "FRC"
                  ELSE "Ext",
         api  |-> IF ~is_extended THEN <<"-">>
                  ELSE IF d.dt = DEVICE_ID /\ d.man = MANUFACTURER_ID
                       THEN <<getAPIClassName(d.api)>>
                  ELSE <<"DT", d.dt, "MFG", d.man>>,
         dn   |-> IF ~is_extended THEN <<"-">> ELSE <<d.dn>>,
         data |-> [j \in 1..len |-> data[j]]]

\* the row of one whole entry
RowOfEntry(e) == RowOf(e.is_tx, e.timestamp, e.id, e.is_extended, e.id, e.len, e.data)

NoPage == [kind |-> "none"]

LoopAtRest ==
    [pc |-> "client", msg |-> NoFrame, idx |-> 0, g |-> 0, c |-> 0,
     start |-> 0, count |-> 0, i |-> 0, rows |-> <<>>, head |-> <<>>, from |-> 0]

TxAtRest ==
    [pc |-> "sleep", now |-> 0, lastStatus |-> 0, lastHeartbeat |-> 0, lastSecTick |-> 0,
     id |-> 0, buf |-> NoBytes, success |-> FALSE]

\* TaskCANIDHelper between two lines
HelperIdle == [pc |-> "idle", line |-> <<>>]

\* nothing printed
NoLine == [kind |-> "none"]

\* the serial command variables outside the "canid" runs: an erased EEPROM
CanIdAtRest ==
    /\ eeprom = 255 /\ serial = NoLine /\ helper = HelperIdle /\ saved = 0 - 1

\* the variables of the "ring" sketch as the startup code leaves them
RingAtRest ==
    /\ logs = EmptyLogs /\ logIndex = 0 /\ logCount = 0 /\ startTime = 0
    /\ g_deviceNumber = DEFAULT_DEVICE_NUMBER /\ g_uptimeSec = 0
    /\ lp = LoopAtRest /\ tx = TxAtRest
    /\ received = 0 /\ appended = <<>> /\ everCleared = FALSE /\ clearedAt = 0 - 1
    /\ page = NoPage

otherVars == <<wdVars, fwVars, loopVars, codecVars, idVars>>

----------------------------------------------------------------------------
(* TaskCANTx (priority 2) preempts the loop task (priority 1, same core) at  *)
(* any instruction and runs until it blocks: in vTaskDelay, or inside        *)
(* twai_transmit. Each action below is one such run, so CAN_Send's append    *)
(* is a single step, which the loop task can neither split nor observe       *)
(* half done.                                                                *)

StatusBuf(uptime, count) ==
    LET msgs == IF count > 65535 THEN 65535 ELSE count
    IN  <<SOFTWARE_VER, Low(uptime, 8), Low(Shr(uptime, 8), 8),
          Low(msgs, 8), Low(Shr(msgs, 8), 8), 0, 0, 0>>

\* a heartbeat payload that carries the compiled-in device number
HeartbeatBuf_DefaultNumber(deviceNumber) == <<170, DEFAULT_DEVICE_NUMBER, 0, 0, 0, 0, 0, 0>>

HeartbeatBuf(deviceNumber) == <<170, deviceNumber, 0, 0, 0, 0, 0, 0>>

\* the heartbeat section up to the transmit call, then vTaskDelay
HeartbeatPart(r, t) ==
    IF t - r.lastHeartbeat >= 100
    THEN IF can_started
         THEN [r EXCEPT !.pc = "hb_tx", !.now = t, !.lastHeartbeat = t,
                        !.id = make_can_id(API_TX_HEARTBEAT, g_deviceNumber),
                        !.buf = HeartbeatBuf(g_deviceNumber)]
         ELSE [r EXCEPT !.pc = "sleep", !.now = 0, !.lastHeartbeat = t,
                        !.id = 0, !.buf = NoBytes, !.success = FALSE]
    ELSE [r EXCEPT !.pc = "sleep", !.now = 0, !.id = 0, !.buf = NoBytes]

\* the entry CAN_Send logs after a successful transmit
TxEntry(id, buf, dlc, t) ==
    [id |-> id, data |-> [k \in 1..8 |-> IF k <= dlc THEN buf[k] ELSE 0], len |-> dlc,
     timestamp |-> t, is_extended |-> TRUE, is_tx |-> TRUE]

\* the wake-up from vTaskDelay: uptime, the status section up to its transmit
\* call, else the heartbeat section
TxWake ==
    /\ build \in {"ring", "canid"}
    /\ tx.pc = "sleep"
    /\ LET sec == now - tx.lastSecTick >= 1000
           up  == IF sec /\ g_uptimeSec < 65535 THEN g_uptimeSec + 1 ELSE g_uptimeSec
           r0  == [tx EXCEPT !.lastSecTick = IF sec THEN @ + 1000 ELSE @]
       IN  /\ g_uptimeSec' = up
           /\ IF now - tx.lastStatus >= 500
              THEN IF can_started
                   THEN tx' = [r0 EXCEPT !.pc = "status_tx", !.now = now, !.lastStatus = now,
                                         !.id = make_can_id(API_TX_STATUS, g_deviceNumber),
                                         !.buf = StatusBuf(up, logCount)]
                   ELSE tx' = HeartbeatPart([r0 EXCEPT !.lastStatus = now, !.success = FALSE], now)
              ELSE tx' = HeartbeatPart(r0, now)
    /\ UNCHANGED <<build, now, otherVars, logs, logIndex, logCount, startTime,
                   g_deviceNumber, lp, received, appended, everCleared, clearedAt, page>>

\* a CAN_Send that logs the frame whatever twai_transmit returned
SendAndLog_LogsAttempts(ok) ==
    LET e == TxEntry(tx.id, tx.buf, 8, now - startTime)
    IN  /\ logs' = [logs EXCEPT ![logIndex] = e]
        /\ logIndex' = (logIndex + 1) % MAX_LOGS
        /\ logCount' = IF logCount < MAX_LOGS THEN logCount + 1 ELSE logCount
        /\ appended' = Append(appended, e)

\* CAN_Send from the transmit call on: the append on success
SendAndLog(ok) ==
    IF ok
    THEN LET e == TxEntry(tx.id, tx.buf, 8, now - startTime)
         IN  /\ logs' = [logs EXCEPT ![logIndex] = e]
             /\ logIndex' = (logIndex + 1) % MAX_LOGS
             /\ logCount' = IF logCount < MAX_LOGS THEN logCount + 1 ELSE logCount
             /\ appended' = Append(appended, e)
    ELSE UNCHANGED <<logs, logIndex, logCount, appended>>

\* twai_transmit of the status frame returns; the heartbeat section follows
TxStatusSend ==
    /\ tx.pc = "status_tx"
    /\ \E ok \in BOOLEAN :
          /\ SendAndLog(ok)
          /\ tx' = [HeartbeatPart(tx, tx.now) EXCEPT !.success = ok]
    /\ UNCHANGED <<build, now, otherVars, startTime, g_deviceNumber, g_uptimeSec, lp,
                   received, everCleared, clearedAt, page>>

\* twai_transmit of the heartbeat frame returns; vTaskDelay follows
TxHeartbeatSend ==
    /\ tx.pc = "hb_tx"
    /\ \E ok \in BOOLEAN :
          /\ SendAndLog(ok)
          /\ tx' = [tx EXCEPT !.pc = "sleep", !.now = 0, !.id = 0, !.buf = NoBytes,
                              !.success = ok]
    /\ UNCHANGED <<build, now, otherVars, startTime, g_deviceNumber, g_uptimeSec, lp,
                   received, everCleared, clearedAt, page>>

----------------------------------------------------------------------------
(* The loop task of the "ring" sketch. Its steps are the stretches between   *)
(* the points where a preemption by TaskCANTx changes what it does next: a   *)
(* global is read into a register in one step and used in a later one.       *)

txVars == <<tx, g_uptimeSec, g_deviceNumber>>

\* server.handleClient() finds no request
NoClient ==
    /\ build = "ring"
    /\ lp.pc = "client"
    /\ lp' = [lp EXCEPT !.pc = "rx"]
    /\ UNCHANGED <<build, now, otherVars, txVars, logs, logIndex, logCount, startTime,
                   received, appended, everCleared, clearedAt, page>>

\* handleData: int start = (logCount < MAX_LOGS) ? 0 : logIndex
DataStart ==
    /\ build = "ring"
    /\ lp.pc = "client"
    /\ lp' = [lp EXCEPT !.pc = "data_count",
                        !.start = IF logCount < MAX_LOGS THEN 0 ELSE logIndex,
                        !.from = Len(appended)]
    /\ UNCHANGED <<build, now, otherVars, txVars, logs, logIndex, logCount, startTime,
                   received, appended, everCleared, clearedAt, page>>

\* handleData: int count = (logCount < MAX_LOGS) ? logCount : MAX_LOGS
DataCount ==
    /\ lp.pc = "data_count"
    /\ LET count == IF logCount < MAX_LOGS THEN logCount ELSE MAX_LOGS
       IN  lp' = [lp EXCEPT !.pc = IF count > 0 THEN "data_row" ELSE "data_send",
                            !.count = count, !.i = 0, !.rows = <<>>]
    /\ UNCHANGED <<build, now, otherVars, txVars, logs, logIndex, logCount, startTime,
                   received, appended, everCleared, clearedAt, page>>

\* handleData, one row: the Dir, Time and ID columns
DataRowHead ==
    /\ lp.pc = "data_row"
    /\ LET log == logs[(lp.start + lp.i) % MAX_LOGS]
       IN  lp' = [lp EXCEPT !.pc = "data_row_rest",
                            !.head = <<log.is_tx, log.timestamp, log.id>>]
    /\ UNCHANGED <<build, now, otherVars, txVars, logs, logIndex, logCount, startTime,
                   received, appended, everCleared, clearedAt, page>>

\* handleData, one row: is_extended, decode_id(log->id), the data bytes
DataRowRest ==
    /\ lp.pc = "data_row_rest"
    /\ LET log == logs[(lp.start + lp.i) % MAX_LOGS]
           row == RowOf(lp.head[1], lp.head[2], lp.head[3],
                        log.is_extended, log.id, log.len, log.data)
       IN  lp' = [lp EXCEPT !.pc = IF lp.i + 1 < lp.count THEN "data_row" ELSE "data_send",
                            !.i = lp.i + 1,
                            !.rows = Append(lp.rows, row),
                            !.head = <<>>]
    /\ UNCHANGED <<build, now, otherVars, txVars, logs, logIndex, logCount, startTime,
                   received, appended, everCleared, clearedAt, page>>

\* handleData: the count script with logCount, server.send
DataSend ==
    /\ lp.pc = "data_send"
    /\ page' = [kind |-> "data", rows |-> lp.rows, count |-> logCount,
                from |-> lp.from, to |-> Len(appended), cleared |-> everCleared]
    /\ lp' = [LoopAtRest EXCEPT !.pc = "sent"]
    /\ UNCHANGED <<build, now, otherVars, txVars, logs, logIndex, logCount, startTime,
                   received, appended, everCleared, clearedAt>>

\* handleClear: logIndex = 0
ClearIndex ==
    /\ build = "ring"
    /\ lp.pc = "client"
    /\ logIndex' = 0
    /\ everCleared' = TRUE
    /\ lp' = [lp EXCEPT !.pc = "clear_count"]
    /\ UNCHANGED <<build, now, otherVars, txVars, logs, logCount, startTime,
                   received, appended, clearedAt, page>>

\* handleClear: logCount = 0
ClearCount ==
    /\ lp.pc = "clear_count"
    /\ logCount' = 0
    /\ clearedAt' = Len(appended)
    /\ lp' = [lp EXCEPT !.pc = "clear_time"]
    /\ UNCHANGED <<build, now, otherVars, txVars, logs, logIndex, startTime,
                   received, appended, everCleared, page>>

\* handleClear: startTime = millis(), server.send
ClearTime ==
    /\ lp.pc = "clear_time"
    /\ startTime' = now
    /\ page' = [kind |-> "OK"]
    /\ lp' = [lp EXCEPT !.pc = "sent"]
    /\ UNCHANGED <<build, now, otherVars, txVars, logs, logIndex, logCount,
                   received, appended, everCleared, clearedAt>>

\* the handler returns, handleClient returns; the reply has left
HandlerReturn ==
    /\ lp.pc = "sent"
    /\ page' = NoPage
    /\ lp' = [lp EXCEPT !.pc = "rx"]
    /\ UNCHANGED <<build, now, otherVars, txVars, logs, logIndex, logCount, startTime,
                   received, appended, everCleared, clearedAt>>

\* if (can_started) is false
RxSkip ==
    /\ lp.pc = "rx"
    /\ ~can_started
    /\ lp' = [lp EXCEPT !.pc = "client"]
    /\ UNCHANGED <<build, now, otherVars, txVars, logs, logIndex, logCount, startTime,
                   received, appended, everCleared, clearedAt, page>>

\* twai_receive times out after 10 ms
RxNone ==
    /\ lp.pc = "rx"
    /\ can_started
    /\ lp' = [lp EXCEPT !.pc = "client"]
    /\ UNCHANGED <<build, now, otherVars, txVars, logs, logIndex, logCount, startTime,
                   received, appended, everCleared, clearedAt, page>>

\* twai_receive returns a frame
RxFrame ==
    /\ lp.pc = "rx"
    /\ can_started
    /\ received < MaxFrames
    /\ received' = received + 1
    /\ \E m \in RingFrames : lp' = [lp EXCEPT !.pc = "w_head", !.msg = m]
    /\ UNCHANGED <<build, now, otherVars, txVars, logs, logIndex, logCount, startTime,
                   appended, everCleared, clearedAt, page>>

\* what the append of a received frame is to leave in its slot
RxEntry(msg, t) ==
    [id |-> msg.identifier,
     data |-> [k \in 1..8 |-> IF k <= msg.data_length_code THEN msg.data[k] ELSE 0],
     len |-> msg.data_length_code, timestamp |-> t,
     is_extended |-> msg.extd, is_tx |-> FALSE]

\* logs[logIndex].id, .len, .is_extended, .is_tx, with one load of logIndex
WriteHead ==
    /\ lp.pc = "w_head"
    /\ logs' = [logs EXCEPT ![logIndex] =
                   [@ EXCEPT !.id = lp.msg.identifier,
                             !.len = lp.msg.data_length_code,
                             !.is_extended = lp.msg.extd,
                             !.is_tx = FALSE]]
    /\ appended' = Append(appended, RxEntry(lp.msg, 0 - 1))
    /\ lp' = [lp EXCEPT !.pc = "w_time", !.idx = logIndex, !.g = Len(appended) + 1]
    /\ UNCHANGED <<build, now, otherVars, txVars, logIndex, logCount, startTime,
                   received, everCleared, clearedAt, page>>

\* logs[logIndex].timestamp = millis() - startTime and the data loop: the
\* index is the one still in the register or logIndex loaded again after the
\* call of millis()
WriteRest ==
    /\ lp.pc = "w_time"
    /\ \E i \in {lp.idx, logIndex} :
          /\ logs' = [logs EXCEPT ![i] =
                         [@ EXCEPT !.timestamp = now - startTime,
                                   !.data = [k \in 1..8 |->
                                       IF k <= lp.msg.data_length_code
                                       THEN lp.msg.data[k] ELSE @[k]]]]
          /\ lp' = [lp EXCEPT !.pc = "advance", !.idx = i]
    /\ appended' = [appended EXCEPT ![lp.g].timestamp = now - startTime]
    /\ UNCHANGED <<build, now, otherVars, txVars, logIndex, logCount, startTime,
                   received, everCleared, clearedAt, page>>

\* logIndex = (logIndex + 1) % MAX_LOGS, from the register or a new load
Advance ==
    /\ lp.pc = "advance"
    /\ \E i \in {lp.idx, logIndex} : logIndex' = (i + 1) % MAX_LOGS
    /\ lp' = [lp EXCEPT !.pc = "count_load", !.idx = 0]
    /\ UNCHANGED <<build, now, otherVars, txVars, logs, logCount, startTime,
                   received, appended, everCleared, clearedAt, page>>

\* if (logCount < MAX_LOGS) logCount++ : the load
CountLoad ==
    /\ lp.pc = "count_load"
    /\ lp' = [lp EXCEPT !.pc = "count_store", !.c = logCount]
    /\ UNCHANGED <<build, now, otherVars, txVars, logs, logIndex, logCount, startTime,
                   received, appended, everCleared, clearedAt, page>>

\* if (logCount < MAX_LOGS) logCount++ : the test on the loaded value, then
\* the increment of the register or of logCount loaded again (as unoptimised
\* code does), and the store
CountStore ==
    /\ lp.pc = "count_store"
    /\ \E c \in {lp.c, logCount} :
          logCount' = IF lp.c < MAX_LOGS THEN c + 1 ELSE logCount
    /\ lp' = LoopAtRest
    /\ UNCHANGED <<build, now, otherVars, txVars, logs, logIndex, startTime,
                   received, appended, everCleared, clearedAt, page>>

----------------------------------------------------------------------------
(* The single-loop sketch, src/adalogger.ino 1..1066: one task, so every    *)
(* handler and every section of loop() is one step.                         *)

HEARTBEAT_ID == 16848960

\* messageBuffer[] slots (500 in the source)
MAX_MESSAGES == 2

\* devices[] slots (64 in the source)
MAX_DEVICES == 2

\* frames received, bus-off findings and POST /send requests per run
MaxLoopFrames == 3
MaxBusOffs == 1
MaxSends == 1

\* the identifier of the bus-off marker, 0xFFFFFFFF: all 32 bits set, written
\* as the signed number with that bit pattern
ErrorMarkerId == 0 - 1

\* a decodeCANMsgID that takes the API field from bit 8 on
decodeCANMsgID_ApiFromBit8(can_id) ==
    [deviceID       |-> Low(Shr(can_id, 24), 8),
     manufacturerID |-> Low(Shr(can_id, 16), 8),
     apiID          |-> Low(Shr(can_id, 8), 10),
     deviceNumber   |-> Low(can_id, 6)]

decodeCANMsgID(can_id) ==
    [deviceID       |-> Low(Shr(can_id, 24), 8),
     manufacturerID |-> Low(Shr(can_id, 16), 8),
     apiID          |-> Low(Shr(can_id, 6), 10),
     deviceNumber   |-> Low(can_id, 6)]

makeCANMsgID(deviceID, manufacturerID, apiID, deviceNumber) ==
    BitOr(BitOr(Shl(Low(deviceID, 8), 24), Shl(Low(manufacturerID, 8), 16)),
          BitOr(Shl(Low(apiID, 10), 6), Low(deviceNumber, 6)))

getDeviceTypeName(deviceID) ==
    CASE deviceID = 0 -> "Broadcast"
      [] deviceID = 1 -> "RoboRIO"
      [] deviceID = 2 -> "Motor Controller"
      [] deviceID = 3 -> "Relay"
      [] deviceID = 4 -> "Gyro"
      [] deviceID = 5 -> "Accelerometer"
      [] deviceID = 6 -> "Ultrasonic"
      [] deviceID = 7 -> "Gear Tooth"
      [] deviceID = 8 -> "Power Distribution"
      [] deviceID = 9 -> "Pneumatics"
      [] deviceID = 10 -> "Miscellaneous"
      [] deviceID = 11 -> "IO Breakout"
      [] OTHER -> "Unknown"

getManufacturerName(mfrID) ==
    CASE mfrID = 0 -> "Broadcast"
      [] mfrID = 1 -> "NI"
      [] mfrID = 2 -> "Luminary Micro"
      [] mfrID = 3 -> "DEKA"
      [] mfrID = 4 -> "CTR Electronics"
      [] mfrID = 5 -> "REV Robotics"
      [] mfrID = 6 -> "Grapple"
      [] mfrID = 7 -> "MindSensors"
      [] mfrID = 8 -> "Team Use"
      [] OTHER -> "Unknown"

\* a slot of the zero-initialised arrays
EmptyMessage ==
    [id |-> 0, data |-> NoBytes, len |-> 0, timestamp |-> 0, extended |-> FALSE,
     error |-> FALSE]

EmptyDevice ==
    [canID |-> 0, deviceID |-> 0, manufacturerID |-> 0, apiID |-> 0, deviceNumber |-> 0,
     messageCount |-> 0, lastSeen |-> 0, active |-> FALSE]

NothingObserved == [x \in {} |-> [count |-> 0, first |-> 0, last |-> 0]]

\* Frames on the bus in the runs of the single-loop sketch: three identifiers
\* with the same device number, two of which differ in the device type only
\* and the third in manufacturer and API, and the heartbeat.
LoopFrames ==
    { Frame(FrcId(2, 4, 5, 1), TRUE, 2, Payload(3, 1)),
      Frame(FrcId(3, 4, 5, 1), TRUE, 1, Payload(9, 0)),
      Frame(FrcId(2, 5, 6, 1), TRUE, 0, Payload(0, 0)),
      Frame(HEARTBEAT_ID, TRUE, 8, Payload(1, 0)) }

\* a search that compares the decoded device number instead of the identifier
FindDevice_ByDeviceNumber(devs, n, canID) ==
    IF \E i \in 0..(n - 1) : devs[i].deviceNumber = decodeCANMsgID(canID).deviceNumber
    THEN CHOOSE i \in 0..(n - 1) :
            /\ devs[i].deviceNumber = decodeCANMsgID(canID).deviceNumber
            /\ \A j \in 0..(i - 1) :
                  devs[j].deviceNumber # decodeCANMsgID(canID).deviceNumber
    ELSE n

\* the index of the record of canID among the first n, or n if there is none
FindDevice(devs, n, canID) ==
    IF \E i \in 0..(n - 1) : devs[i].canID = canID
    THEN CHOOSE i \in 0..(n - 1) :
            /\ devs[i].canID = canID
            /\ \A j \in 0..(i - 1) : devs[j].canID # canID
    ELSE n

\* an updateDeviceList that counts a record it finds down
updateDeviceList_CountsDown(devs, n, canID, t) ==
    IF canID = HEARTBEAT_ID THEN [devices |-> devs, deviceCount |-> n]
    ELSE IF \E i \in 0..(n - 1) : devs[i].canID = canID
    THEN [devices |-> [i \in DOMAIN devs |->
                          IF i < n /\ devs[i].canID = canID
                          THEN [devs[i] EXCEPT !.messageCount = @ - 1, !.lastSeen = t,
                                               !.active = TRUE]
                          ELSE devs[i]],
          deviceCount |-> n]
    ELSE IF n < MAX_DEVICES
    THEN [devices |-> [devs EXCEPT ![n] =
              [canID |-> canID, deviceID |-> decodeCANMsgID(canID).deviceID,
               manufacturerID |-> decodeCANMsgID(canID).manufacturerID,
               apiID |-> decodeCANMsgID(canID).apiID,
               deviceNumber |-> decodeCANMsgID(canID).deviceNumber,
               messageCount |-> 1, lastSeen |-> t, active |-> TRUE]],
          deviceCount |-> n + 1]
    ELSE [devices |-> devs, deviceCount |-> n]

\* an updateDeviceList that reuses the oldest record when the array is full
updateDeviceList_ReusesOldest(devs, n, canID, t) ==
    IF canID = HEARTBEAT_ID THEN [devices |-> devs, deviceCount |-> n]
    ELSE IF \E i \in 0..(n - 1) : devs[i].canID = canID
    THEN [devices |-> [i \in DOMAIN devs |->
                          IF i < n /\ devs[i].canID = canID
                          THEN [devs[i] EXCEPT !.messageCount = @ + 1, !.lastSeen = t,
                                               !.active = TRUE]
                          ELSE devs[i]],
          deviceCount |-> n]
    ELSE [devices |-> [devs EXCEPT ![IF n < MAX_DEVICES THEN n ELSE 0] =
              [canID |-> canID, deviceID |-> decodeCANMsgID(canID).deviceID,
               manufacturerID |-> decodeCANMsgID(canID).manufacturerID,
               apiID |-> decodeCANMsgID(canID).apiID,
               deviceNumber |-> decodeCANMsgID(canID).deviceNumber,
               messageCount |-> 1, lastSeen |-> t, active |-> TRUE]],
          deviceCount |-> IF n < MAX_DEVICES THEN n + 1 ELSE n]

\* updateDeviceList: the arrays and the count it leaves
updateDeviceList(devs, n, canID, t) ==
    IF canID = HEARTBEAT_ID THEN [devices |-> devs, deviceCount |-> n]
    ELSE LET i == FindDevice(devs, n, canID)
         IN  IF i < n
             THEN [devices |-> [devs EXCEPT ![i] = [@ EXCEPT !.messageCount = @ + 1,
                                                              !.lastSeen = t,
                                                              !.active = TRUE]],
                   deviceCount |-> n]
             ELSE IF n < MAX_DEVICES
             THEN LET decoded == decodeCANMsgID(canID)
                  IN  [devices |-> [devs EXCEPT ![n] =
                          [canID |-> canID, deviceID |-> decoded.deviceID,
                           manufacturerID |-> decoded.manufacturerID,
                           apiID |-> decoded.apiID,
                           deviceNumber |-> decoded.deviceNumber,
                           messageCount |-> 1, lastSeen |-> t, active |-> TRUE]],
                       deviceCount |-> n + 1]
             ELSE [devices |-> devs, deviceCount |-> n]

\* the fields loop() writes into a slot for a received frame; memcpy copies
\* data_length_code bytes and leaves the rest of the slot's data as it was
WriteMessage(slot, msg, t) ==
    [id |-> msg.identifier, len |-> msg.data_length_code, extended |-> msg.extd,
     timestamp |-> t, error |-> FALSE,
     data |-> [k \in 1..8 |-> IF k <= msg.data_length_code THEN msg.data[k]
                              ELSE slot.data[k]]]

\* the fields loop() writes into a slot for the bus-off marker
WriteMarker(slot, t) ==
    [slot EXCEPT !.id = ErrorMarkerId, !.len = 0, !.extended = FALSE, !.timestamp = t,
                 !.error = TRUE]

\* memmove(&messageBuffer[0], &messageBuffer[1], ...): the last slot keeps its content
ShiftBuffer(buf) ==
    [i \in 0..(MAX_MESSAGES - 1) |-> IF i < MAX_MESSAGES - 1 THEN buf[i + 1] ELSE buf[i]]

\* what handleMessages shows of a slot
MessageRow(m) ==
    [id |-> m.id, data |-> [j \in 1..m.len |-> m.data[j]], len |-> m.len,
     timestamp |-> m.timestamp, error |-> m.error,
     decoded |-> IF m.id # HEARTBEAT_ID /\ ~m.error
                 THEN LET d == decodeCANMsgID(m.id)
                      IN  <<getDeviceTypeName(d.deviceID), getManufacturerName(d.manufacturerID),
                            d.apiID, d.deviceNumber>>
                 ELSE <<>>]

\* what handleDevices shows of a record
DeviceRow(d) ==
    [id |-> d.canID, name |-> getDeviceTypeName(d.deviceID),
     manufacturer |-> getManufacturerName(d.manufacturerID), deviceNum |-> d.deviceNumber,
     msgCount |-> d.messageCount, lastSeen |-> d.lastSeen, active |-> d.active]

LoopAtStart == [pc |-> "client", msg |-> NoFrame]

\* the globals of the single-loop sketch after the startup code
LoopSketchAtRest ==
    /\ messageBuffer = [i \in 0..(MAX_MESSAGES - 1) |-> EmptyMessage]
    /\ bufferIndex = 0 /\ totalMessages = 0 /\ bufferOverflow = FALSE
    /\ devices = [i \in 0..(MAX_DEVICES - 1) |-> EmptyDevice]
    /\ deviceCount = 0
    /\ rxCount = 0 /\ txCount = 0 /\ errCount = 0 /\ lastHeartbeat = 0
    /\ lo = LoopAtStart
    /\ stored = <<>> /\ observed = NothingObserved
    /\ framesIn = 0 /\ busOffs = 0 /\ sends = 0

notLoopVars == <<wdVars, fwVars, ringVars, codecVars, idVars>>

registryVars == <<devices, deviceCount, observed>>
bufferVars == <<messageBuffer, bufferIndex, totalMessages, bufferOverflow, stored>>
counterVars == <<rxCount, txCount, errCount, lastHeartbeat>>

----------------------------------------------------------------------------
(* loop() and the handlers of the single-loop sketch *)

\* server.handleClient() finds no request
LoopNoClient ==
    /\ build = "loop"
    /\ lo.pc = "client"
    /\ lo' = [lo EXCEPT !.pc = "rx"]
    /\ UNCHANGED <<build, now, notLoopVars, registryVars, bufferVars, counterVars,
                   framesIn, busOffs, sends, page>>

handleStats ==
    /\ build = "loop"
    /\ lo.pc = "client"
    /\ page' = [kind |-> "stats", rx |-> rxCount, tx |-> txCount, err |-> errCount,
                lastHeartbeat |-> lastHeartbeat]
    /\ lo' = [lo EXCEPT !.pc = "rx"]
    /\ UNCHANGED <<build, now, notLoopVars, registryVars, bufferVars, counterVars,
                   framesIn, busOffs, sends>>

handleDevices ==
    /\ build = "loop"
    /\ lo.pc = "client"
    /\ page' = [kind |-> "devices",
                rows |-> [i \in 1..deviceCount |-> DeviceRow(devices[i - 1])]]
    /\ lo' = [lo EXCEPT !.pc = "rx"]
    /\ UNCHANGED <<build, now, notLoopVars, registryVars, bufferVars, counterVars,
                   framesIn, busOffs, sends>>

\* a handleClear that zeroes the counters with the log
handleClear_ZeroesCounters ==
    /\ build = "loop"
    /\ lo.pc = "client"
    /\ bufferIndex' = 0
    /\ totalMessages' = 0
    /\ bufferOverflow' = FALSE
    /\ stored' = <<>>
    /\ rxCount' = 0 /\ txCount' = 0 /\ errCount' = 0
    /\ page' = [kind |-> "Messages cleared"]
    /\ lo' = [lo EXCEPT !.pc = "rx"]
    /\ UNCHANGED <<build, now, notLoopVars, registryVars, messageBuffer, lastHeartbeat,
                   framesIn, busOffs, sends>>

handleMessages ==
    /\ build = "loop"
    /\ lo.pc = "client"
    /\ LET n == IF bufferIndex < MAX_MESSAGES THEN bufferIndex ELSE MAX_MESSAGES
       IN  page' = [kind |-> "messages",
                    rows |-> [i \in 1..n |-> MessageRow(messageBuffer[i - 1])]]
    /\ lo' = [lo EXCEPT !.pc = "rx"]
    /\ UNCHANGED <<build, now, notLoopVars, registryVars, bufferVars, counterVars,
                   framesIn, busOffs, sends>>

handleClear ==
    /\ build = "loop"
    /\ lo.pc = "client"
    /\ bufferIndex' = 0
    /\ totalMessages' = 0
    /\ bufferOverflow' = FALSE
    /\ stored' = <<>>
    /\ page' = [kind |-> "Messages cleared"]
    /\ lo' = [lo EXCEPT !.pc = "rx"]
    /\ UNCHANGED <<build, now, notLoopVars, registryVars, messageBuffer, counterVars,
                   framesIn, busOffs, sends>>

\* a handleReset that also empties the message log
handleReset_ClearsLog ==
    /\ build = "loop"
    /\ lo.pc = "client"
    /\ rxCount' = 0
    /\ txCount' = 0
    /\ errCount' = 0
    /\ lastHeartbeat' = 0
    /\ deviceCount' = 0
    /\ observed' = NothingObserved
    /\ bufferIndex' = 0
    /\ totalMessages' = 0
    /\ stored' = <<>>
    /\ page' = [kind |-> "Stats reset"]
    /\ lo' = [lo EXCEPT !.pc = "rx"]
    /\ UNCHANGED <<build, now, notLoopVars, devices, messageBuffer, bufferOverflow, framesIn,
                   busOffs, sends>>

\* a handleReset that leaves the error counter
handleReset_KeepsErrors ==
    /\ build = "loop"
    /\ lo.pc = "client"
    /\ rxCount' = 0
    /\ txCount' = 0
    /\ lastHeartbeat' = 0
    /\ deviceCount' = 0
    /\ observed' = NothingObserved
    /\ page' = [kind |-> "Stats reset"]
    /\ lo' = [lo EXCEPT !.pc = "rx"]
    /\ UNCHANGED <<build, now, notLoopVars, devices, bufferVars, errCount, framesIn, busOffs, sends>>

handleReset ==
    /\ build = "loop"
    /\ lo.pc = "client"
    /\ rxCount' = 0
    /\ txCount' = 0
    /\ errCount' = 0
    /\ lastHeartbeat' = 0
    /\ deviceCount' = 0
    /\ observed' = NothingObserved
    /\ page' = [kind |-> "Stats reset"]
    /\ lo' = [lo EXCEPT !.pc = "rx"]
    /\ UNCHANGED <<build, now, notLoopVars, devices, bufferVars, framesIn, busOffs, sends>>

\* strtoul(text, NULL, 16) on a text given as its characters: an optional
\* 0x, then the longest run of hexadecimal digits; 0 if there is none
HexDigits == <<"0", "1", "2", "3", "4", "5", "6", "7", "8", "9", "A", "B", "C", "D", "E", "F">>

IsHexDigit(c) == \E k \in 1..16 : HexDigits[k] = c

HexValue(c) == (CHOOSE k \in 1..16 : HexDigits[k] = c) - 1

RECURSIVE HexRun(_, _, _)
HexRun(text, i, v) ==
    IF i > Len(text) \/ ~IsHexDigit(text[i]) THEN v
    ELSE HexRun(text, i + 1, v * 16 + HexValue(text[i]))

strtoul16(text) ==
    IF Len(text) >= 3 /\ text[1] = "0" /\ text[2] = "x" /\ IsHexDigit(text[3])
    THEN HexRun(text, 3, 0)
    ELSE HexRun(text, 1, 0)

\* POST /send requests: the id and data arguments as sent, data already
\* split at its spaces as strtok splits it
SendRequests ==
    { [hasId |-> TRUE, hasData |-> TRUE, id |-> <<"1", "A">>,
       data |-> << <<"F", "F">>, <<"0", "x", "1", "2">> >>],
      [hasId |-> TRUE, hasData |-> TRUE, id |-> <<"z", "z">>, data |-> << <<"g">> >>],
      [hasId |-> TRUE, hasData |-> FALSE, id |-> <<"1", "A">>, data |-> <<>>] }

\* the frame handleSend builds from its arguments
SendFrame(req) ==
    LET dataLen == IF Len(req.data) < 8 THEN Len(req.data) ELSE 8
    IN  [identifier |-> strtoul16(req.id), extd |-> TRUE, rtr |-> FALSE,
         data_length_code |-> dataLen,
         data |-> [k \in 1..8 |-> IF k <= dataLen THEN strtoul16(req.data[k]) % 256 ELSE 0]]

handleSend ==
    /\ build = "loop"
    /\ lo.pc = "client"
    /\ sends < MaxSends
    /\ sends' = sends + 1
    /\ \E req \in SendRequests :
          IF req.hasId /\ req.hasData
          THEN \E ok \in {FALSE, can_started} :
                  /\ txCount' = IF ok THEN txCount + 1 ELSE txCount
                  /\ page' = [kind |-> "send", code |-> IF ok THEN 200 ELSE 500,
                              frame |-> SendFrame(req)]
          ELSE /\ txCount' = txCount
               /\ page' = [kind |-> "send", code |-> 400, frame |-> NoFrame]
    /\ lo' = [lo EXCEPT !.pc = "rx"]
    /\ UNCHANGED <<build, now, notLoopVars, registryVars, bufferVars, rxCount, errCount,
                   lastHeartbeat, framesIn, busOffs>>

\* the history record of one more frame of an identifier
Observe(obs, id, t) ==
    [x \in DOMAIN obs \cup {id} |->
        IF x = id
        THEN IF id \in DOMAIN obs
             THEN [obs[id] EXCEPT !.count = @ + 1, !.last = t]
             ELSE [count |-> 1, first |-> t, last |-> t]
        ELSE obs[x]]

\* the whole entry an append hands to the log
WholeMessage(msg, t) == WriteMessage(EmptyMessage, msg, t)

\* twai_receive returns a frame: rxCount, updateDeviceList, the buffer,
\* totalMessages, the heartbeat check; the reply of this iteration has left
LoopReceive ==
    /\ build = "loop"
    /\ lo.pc = "rx"
    /\ can_started
    /\ framesIn < MaxLoopFrames
    /\ framesIn' = framesIn + 1
    /\ \E msg \in LoopFrames :
          LET u == updateDeviceList(devices, deviceCount, msg.identifier, now)
          IN  /\ rxCount' = rxCount + 1
              /\ devices' = u.devices
              /\ deviceCount' = u.deviceCount
              /\ observed' = Observe(observed, msg.identifier, now)
              /\ IF bufferIndex < MAX_MESSAGES
                 THEN /\ messageBuffer' = [messageBuffer EXCEPT ![bufferIndex] =
                                              WriteMessage(@, msg, now)]
                      /\ bufferIndex' = bufferIndex + 1
                      /\ bufferOverflow' = bufferOverflow
                 ELSE /\ messageBuffer' =
                            [ShiftBuffer(messageBuffer) EXCEPT ![MAX_MESSAGES - 1] =
                                WriteMessage(@, msg, now)]
                      /\ bufferIndex' = bufferIndex
                      /\ bufferOverflow' = TRUE
              /\ stored' = Append(stored, WholeMessage(msg, now))
              /\ totalMessages' = totalMessages + 1
              /\ lastHeartbeat' = IF msg.identifier = HEARTBEAT_ID THEN now ELSE lastHeartbeat
              /\ lo' = [pc |-> "status", msg |-> msg]
    /\ page' = NoPage
    /\ UNCHANGED <<build, now, notLoopVars, txCount, errCount, busOffs, sends>>

\* twai_receive times out after 10 ms, or the driver is not running
LoopReceiveNone ==
    /\ build = "loop"
    /\ lo.pc = "rx"
    /\ lo' = [lo EXCEPT !.pc = "status"]
    /\ page' = NoPage
    /\ UNCHANGED <<build, now, notLoopVars, registryVars, bufferVars, counterVars,
                   framesIn, busOffs, sends>>

\* twai_get_status_info fails or reports a state other than bus off
LoopStatusOk ==
    /\ build = "loop"
    /\ lo.pc = "status"
    /\ lo' = LoopAtStart
    /\ UNCHANGED <<build, now, notLoopVars, registryVars, bufferVars, counterVars,
                   framesIn, busOffs, sends, page>>

\* the bus is off: errCount, the marker if bufferIndex < MAX_MESSAGES,
\* twai_initiate_recovery
LoopBusOff ==
    /\ build = "loop"
    /\ lo.pc = "status"
    /\ can_started
    /\ busOffs < MaxBusOffs
    /\ busOffs' = busOffs + 1
    /\ errCount' = errCount + 1
    /\ IF bufferIndex < MAX_MESSAGES
       THEN /\ messageBuffer' = [messageBuffer EXCEPT ![bufferIndex] = WriteMarker(@, now)]
            /\ bufferIndex' = bufferIndex + 1
            /\ stored' = Append(stored, WriteMarker(EmptyMessage, now))
       ELSE UNCHANGED <<messageBuffer, bufferIndex, stored>>
    /\ lo' = LoopAtStart
    /\ UNCHANGED <<build, now, notLoopVars, registryVars, totalMessages, bufferOverflow,
                   rxCount, txCount, lastHeartbeat, framesIn, sends, page>>

----------------------------------------------------------------------------
(* The identifier codec functions, called on their own *)

NoCall == [fn |-> "none"]

\* Arguments of the calls: each field at its ends, inside and beyond its
\* width. The device type stops at 127, which keeps every identifier below
\* 2^31.
CodecDeviceTypes == {0, 10, 31, 127}
CodecManufacturers == {0, 8, 255}
CodecApis == {0, 96, 1023, 1024, 65535}
CodecDeviceNumbers == {0, 1, 6, 63, 70, 255}

\* identifiers handed to the decoders: 0x0A081801, the ends of the 29-bit
\* range, a motor controller, the heartbeat, a standard identifier
CodecIds == {0, 168302593, (2 ^ 29) - 1, FrcId(2, 4, 5, 1), HEARTBEAT_ID, 257}

CallEncodeId ==
    /\ build = "codec"
    /\ \E dt \in CodecDeviceTypes, man \in CodecManufacturers, api \in CodecApis,
          dn \in CodecDeviceNumbers :
          call' = [fn |-> "encode_id", dt |-> dt, man |-> man, api |-> api, dn |-> dn,
                   id |-> encode_id(dt, man, api, dn)]
    /\ UNCHANGED <<build, now, wdVars, fwVars, ringVars, loopVars, idVars, page>>

CallMakeCANMsgID ==
    /\ build = "codec"
    /\ \E dt \in CodecDeviceTypes, man \in CodecManufacturers, api \in CodecApis,
          dn \in CodecDeviceNumbers :
          call' = [fn |-> "makeCANMsgID", dt |-> dt, man |-> man, api |-> api, dn |-> dn,
                   id |-> makeCANMsgID(dt, man, api, dn)]
    /\ UNCHANGED <<build, now, wdVars, fwVars, ringVars, loopVars, idVars, page>>

CallDecodeId ==
    /\ build = "codec"
    /\ \E id \in CodecIds :
          LET d == decode_id(id)
          IN  call' = [fn |-> "decode_id", id |-> id,
                       dt |-> d.dt, man |-> d.man, api |-> d.api, dn |-> d.dn]
    /\ UNCHANGED <<build, now, wdVars, fwVars, ringVars, loopVars, idVars, page>>

CallDecodeCANMsgID ==
    /\ build = "codec"
    /\ \E id \in CodecIds :
          LET d == decodeCANMsgID(id)
          IN  call' = [fn |-> "decodeCANMsgID", id |-> id,
                       dt |-> d.deviceID, man |-> d.manufacturerID, api |-> d.apiID,
                       dn |-> d.deviceNumber]
    /\ UNCHANGED <<build, now, wdVars, fwVars, ringVars, loopVars, idVars, page>>

\* an identifier with bit 29 set: 0x2A081801
WideId == (2 ^ 29) + 168302593

CallDecodeFRCCANID ==
    /\ build = "codec"
    /\ \E id \in CodecIds \cup {WideId} :
          LET d == decodeFRCCANID(id)
          IN  call' = [fn |-> "decodeFRCCANID", id |-> id,
                       dt |-> d.deviceType, man |-> d.manufacturer,
                       apiClass |-> d.apiClass, apiIndex |-> d.apiIndex,
                       dn |-> d.deviceNumber]
    /\ UNCHANGED <<build, now, wdVars, fwVars, ringVars, loopVars, idVars, page>>

----------------------------------------------------------------------------
(* Power-on, setup() and the panic of the "mutex" sketch *)

RelayAtStart ==
    [pc |-> "take", shouldBeOn |-> FALSE, shouldFlash |-> FALSE,
     timeSinceHeartbeat |-> 0, lastFlashToggle |-> 0, flashState |-> FALSE,
     took |-> FALSE, obs |-> "NONE"]

NothingDriven == [obs |-> "NONE", took |-> FALSE, solid |-> FALSE, level |-> FALSE]

MonAtStart(pc) ==
    [pc |-> pc, msg |-> NoFrame, enableState |-> FALSE, applied |-> FALSE, alerts |-> {}]

\* the sketch's globals as the startup code leaves them; no handle is created yet
PowerOn(b, t, rs, rm, r, pin, d, m, rx, ap, tg, bo, cs, st, sm, dv, dm, lb, lm, w, rsp, rec, n, al, sn) ==
    /\ b = "mutex" /\ t = 0
    /\ rs = InitialRobotState /\ rm = "NULL"
    /\ r = RelayAtStart /\ pin = FALSE /\ d = NothingDriven
    /\ m = MonAtStart("alerts")
    /\ rx = NoBitYet /\ ap = NoBitYet /\ tg = FALSE
    /\ bo = FALSE /\ cs = FALSE
    /\ st = InitialStats /\ sm = "NULL"
    /\ dv = EmptyDevices /\ dm = "NULL"
    /\ lb = <<>> /\ lm = "NULL"
    /\ w = WebIdle /\ rsp = NoResponse
    /\ rec = 0 /\ n = 0 /\ al = 0 /\ sn = <<>>

InitMutex ==
    PowerOn(build, now, g_robotState, g_robotStateMutex, relay, relayPin, driven, mon,
            lastRxBit, lastAppliedBit, relayToggled, booted, can_started, g_stats,
            g_statsMutex, g_devices, g_devicesMutex, g_logBuffer, g_logMutex, web,
            response, recoveries, rxTotal, alertsRead, seen)
    /\ RingAtRest
    /\ LoopSketchAtRest /\ call = NoCall /\ CanIdAtRest

\* setup(): three mutexes are created (g_robotStateMutex is not), the start
\* time is taken, canInit succeeds or fails, the routes are registered and
\* CANMonitorTask is created (RelayControlTask is not, RELAY_PIN is not set up)
Setup ==
    /\ build = "mutex" /\ ~booted
    /\ booted' = TRUE
    /\ g_devicesMutex' = "free" /\ g_statsMutex' = "free" /\ g_logMutex' = "free"
    /\ g_stats' = [g_stats EXCEPT !.startTimeMs = now]
    /\ \E ok \in BOOLEAN : can_started' = ok
    /\ UNCHANGED <<build, ringVars, loopVars, codecVars, idVars, page, now, wdVars, g_devices, g_logBuffer, web, response, recoveries,
                   rxTotal, alertsRead, seen>>

\* xSemaphoreTake(g_robotStateMutex, 5 ms) on the handle that was never
\* created: the queue assertion (or the load from address 0) panics and the
\* chip restarts
MonRobotPanic ==
    /\ mon.pc = "robot_take"
    /\ g_robotStateMutex = "NULL"
    /\ PowerOn(build', now', g_robotState', g_robotStateMutex', relay', relayPin', driven',
               mon', lastRxBit', lastAppliedBit', relayToggled', booted', can_started',
               g_stats', g_statsMutex', g_devices', g_devicesMutex', g_logBuffer',
               g_logMutex', web', response', recoveries', rxTotal', alertsRead', seen')
    /\ UNCHANGED <<ringVars, loopVars, codecVars, idVars, page>>

NextMutex ==
    \/ Tick
    \/ Setup
    \/ MonNoAlerts
    \/ MonReadAlerts
    \/ MonAlertStats
    \/ MonAlertStatsTimeout
    \/ MonBusOff
    \/ MonBusOffLogTimeout
    \/ MonReceive
    \/ MonReceiveNone
    \/ MonRobotPanic
    \/ MonStats
    \/ MonStatsTimeout
    \/ MonDevices
    \/ MonDevicesTimeout
    \/ MonLog
    \/ MonLogTimeout
    \/ WebStatusTake
    \/ WebStatusStats
    \/ WebStatusDevicesTake
    \/ WebStatusDevices
    \/ WebDevicesTake
    \/ WebDevices
    \/ WebDownloadTake
    \/ WebDownload
    \/ WebClearTake
    \/ WebClear
    \/ WebReturn

\* the "mutex" sketch as setup() starts it
SpecMutex == InitMutex /\ [][NextMutex]_vars

\* the steps of CANMonitorTask
MonitorSteps ==
    \/ MonNoAlerts \/ MonReadAlerts \/ MonAlertStats \/ MonAlertStatsTimeout
    \/ MonBusOff \/ MonBusOffLogTimeout \/ MonReceive \/ MonReceiveNone \/ MonRobotPanic
    \/ MonStats \/ MonStatsTimeout \/ MonDevices \/ MonDevicesTimeout
    \/ MonLog \/ MonLogTimeout

\* the same with the scheduler running every ready task and the clock going;
\* CANMonitorTask has the higher priority on its core and runs whenever it
\* is ready, whatever the loop task does
SpecMutexLive ==
    SpecMutex /\ WF_vars(Tick) /\ WF_vars(NextMutex) /\ WF_vars(Setup) /\ WF_vars(MonitorSteps)

----------------------------------------------------------------------------
(* The watchdog section with both tasks running *)

InitRelay ==
    /\ build = "relay"
    /\ now = 0
    /\ g_robotState = InitialRobotState
    /\ g_robotStateMutex = "free"
    /\ relay = RelayAtStart
    /\ relayPin = FALSE
    /\ driven = NothingDriven
    /\ mon = MonAtStart("receive")
    /\ lastRxBit = NoBitYet
    /\ lastAppliedBit = NoBitYet
    /\ relayToggled = FALSE
    /\ booted = TRUE /\ can_started = TRUE
    /\ g_stats = InitialStats /\ g_statsMutex = "free"
    /\ g_devices = EmptyDevices /\ g_devicesMutex = "free"
    /\ g_logBuffer = <<>> /\ g_logMutex = "free"
    /\ web = WebIdle /\ response = NoResponse
    /\ recoveries = 0 /\ rxTotal = 0 /\ alertsRead = 0 /\ seen = <<>>
    /\ RingAtRest
    /\ LoopSketchAtRest /\ call = NoCall /\ CanIdAtRest

NextRelay ==
    \/ Tick
    \/ RelayTake
    \/ RelayTakeTimeout
    \/ RelaySample
    \/ RelayDrive
    \/ MonReceive
    \/ MonRobotTake
    \/ MonRobotTakeTimeout
    \/ MonRobotUpdate

SpecWatchdog == InitRelay /\ [][NextRelay]_vars

----------------------------------------------------------------------------
(* The "ring" sketch with its two tasks *)

\* the sketch after setup(): the driver started, at the first or the second
\* CAN_Start, or not at all
InitRing ==
    /\ build = "ring"
    /\ now = 0
    /\ RingAtRest
    /\ can_started \in BOOLEAN
    /\ booted = TRUE
    /\ g_robotState = InitialRobotState /\ g_robotStateMutex = "NULL"
    /\ relay = RelayAtStart /\ relayPin = FALSE /\ driven = NothingDriven
    /\ mon = MonAtStart("alerts")
    /\ lastRxBit = NoBitYet /\ lastAppliedBit = NoBitYet /\ relayToggled = FALSE
    /\ g_stats = InitialStats /\ g_statsMutex = "NULL"
    /\ g_devices = EmptyDevices /\ g_devicesMutex = "NULL"
    /\ g_logBuffer = <<>> /\ g_logMutex = "NULL"
    /\ web = WebIdle /\ response = NoResponse
    /\ recoveries = 0 /\ rxTotal = 0 /\ alertsRead = 0 /\ seen = <<>>
    /\ LoopSketchAtRest /\ call = NoCall /\ CanIdAtRest

NextRing ==
    \/ Tick
    \/ TxWake
    \/ TxStatusSend
    \/ TxHeartbeatSend
    \/ NoClient
    \/ DataStart
    \/ DataCount
    \/ DataRowHead
    \/ DataRowRest
    \/ DataSend
    \/ ClearIndex
    \/ ClearCount
    \/ ClearTime
    \/ HandlerReturn
    \/ RxSkip
    \/ RxNone
    \/ RxFrame
    \/ WriteHead
    \/ WriteRest
    \/ Advance
    \/ CountLoad
    \/ CountStore

SpecRing == InitRing /\ [][NextRing]_vars

----------------------------------------------------------------------------
(* The single-loop sketch *)

\* the variables of the other sketches, which this run never touches
OthersAtRest ==
    /\ RingAtRest
    /\ booted = TRUE
    /\ g_robotState = InitialRobotState /\ g_robotStateMutex = "NULL"
    /\ relay = RelayAtStart /\ relayPin = FALSE /\ driven = NothingDriven
    /\ mon = MonAtStart("alerts")
    /\ lastRxBit = NoBitYet /\ lastAppliedBit = NoBitYet /\ relayToggled = FALSE
    /\ g_stats = InitialStats /\ g_statsMutex = "NULL"
    /\ g_devices = EmptyDevices /\ g_devicesMutex = "NULL"
    /\ g_logBuffer = <<>> /\ g_logMutex = "NULL"
    /\ web = WebIdle /\ response = NoResponse
    /\ recoveries = 0 /\ rxTotal = 0 /\ alertsRead = 0 /\ seen = <<>>

\* the sketch after setup(): setupCAN has started the driver or failed
InitLoop ==
    /\ build = "loop"
    /\ now = 0
    /\ can_started \in BOOLEAN
    /\ OthersAtRest
    /\ LoopSketchAtRest /\ call = NoCall /\ CanIdAtRest

NextLoop ==
    \/ Tick
    \/ LoopNoClient
    \/ handleStats
    \/ handleDevices
    \/ handleMessages
    \/ handleClear
    \/ handleReset
    \/ handleSend
    \/ LoopReceive
    \/ LoopReceiveNone
    \/ LoopStatusOk
    \/ LoopBusOff

SpecLoop == InitLoop /\ [][NextLoop]_vars

----------------------------------------------------------------------------
(* The codec functions *)

InitCodec ==
    /\ build = "codec"
    /\ now = 0
    /\ can_started = FALSE
    /\ OthersAtRest
    /\ LoopSketchAtRest /\ call = NoCall /\ CanIdAtRest

NextCodec ==
    \/ CallEncodeId
    \/ CallMakeCANMsgID
    \/ CallDecodeId
    \/ CallDecodeCANMsgID
    \/ CallDecodeFRCCANID

SpecCodec == InitCodec /\ [][NextCodec]_vars

----------------------------------------------------------------------------
(* The device number of src/unnamed/part_000: EEPROM byte 0, the serial     *)
(* commands of TaskCANIDHelper, restarts                                    *)

\* EEPROMReadCANID: the device number a stored byte gives
EEPROMReadCANID(stored_byte) ==
    IF stored_byte <= 63 THEN stored_byte ELSE DEFAULT_DEVICE_NUMBER

\* String::toInt() is atol on a text given as its characters: blanks, an
\* optional sign, then the longest run of decimal digits; 0 if there is none
DecDigits == <<"0", "1", "2", "3", "4", "5", "6", "7", "8", "9">>

IsDecDigit(c) == \E k \in 1..10 : DecDigits[k] = c

DecValue(c) == (CHOOSE k \in 1..10 : DecDigits[k] = c) - 1

RECURSIVE DecRun(_, _, _)
DecRun(text, i, v) ==
    IF i > Len(text) \/ ~IsDecDigit(text[i]) THEN v
    ELSE DecRun(text, i + 1, v * 10 + DecValue(text[i]))

RECURSIVE SkipBlanks(_, _)
SkipBlanks(text, i) ==
    IF i <= Len(text) /\ text[i] = " " THEN SkipBlanks(text, i + 1) ELSE i

toInt(text) ==
    LET i == SkipBlanks(text, 1)
    IN  IF i <= Len(text) /\ text[i] = "-" THEN 0 - DecRun(text, i + 1, 0)
        ELSE IF i <= Len(text) /\ text[i] = "+" THEN DecRun(text, i + 1, 0)
        ELSE DecRun(text, i, 0)

\* what follows "&CANID SET " in the lines of these runs: values inside the
\* range, at its ends and beyond them, and texts that are no number
SetTexts ==
    { <<"0">>, <<"5">>, <<"6", "3">>, <<"6", "4">>, <<"-", "1">>, <<"3", "0", "0">>,
      <<" ", "9">>, <<"7", "x">>, <<"a", "b", "c">> }

\* the bytes EEPROM byte 0 may hold when the sketch is flashed
EepromBytes == {0, 5, 63, 64, 255}

\* the variables of the "ring" sketch that the serial commands do not touch
ringButNumber == <<logs, logIndex, logCount, startTime, g_uptimeSec, lp, tx, received,
                   appended, everCleared, clearedAt>>

notIdVars == <<wdVars, fwVars, loopVars, codecVars, ringButNumber, page>>

\* a SET that accepts every value that fits a byte
HelperSet_AcceptsAnyByte ==
    /\ build = "canid"
    /\ helper.pc = "idle"
    /\ \E text \in SetTexts :
          LET val == toInt(text)
          IN  /\ helper' = [pc |-> "idle", line |-> <<"SET", text>>]
              /\ IF val >= 0 /\ val <= 255
                 THEN /\ g_deviceNumber' = val
                      /\ serial' = [kind |-> "set", value |-> val]
                 ELSE /\ g_deviceNumber' = g_deviceNumber
                      /\ serial' = [kind |-> "invalid"]
    /\ UNCHANGED <<build, now, notIdVars, eeprom, saved>>

\* a SET that also writes the EEPROM byte
HelperSet_Persists ==
    /\ build = "canid"
    /\ helper.pc = "idle"
    /\ \E text \in SetTexts :
          LET val == toInt(text)
          IN  /\ helper' = [pc |-> "idle", line |-> <<"SET", text>>]
              /\ IF val >= 0 /\ val <= 63
                 THEN /\ g_deviceNumber' = val
                      /\ eeprom' = val
                      /\ serial' = [kind |-> "set", value |-> val]
                 ELSE /\ g_deviceNumber' = g_deviceNumber
                      /\ eeprom' = eeprom
                      /\ serial' = [kind |-> "invalid"]
    /\ UNCHANGED <<build, now, notIdVars, saved>>

\* "&CANID SET xx"
HelperSet ==
    /\ build = "canid"
    /\ helper.pc = "idle"
    /\ \E text \in SetTexts :
          LET val == toInt(text)
          IN  /\ helper' = [pc |-> "idle", line |-> <<"SET", text>>]
              /\ IF val >= 0 /\ val <= 63
                 THEN /\ g_deviceNumber' = val
                      /\ serial' = [kind |-> "set", value |-> val]
                 ELSE /\ g_deviceNumber' = g_deviceNumber
                      /\ serial' = [kind |-> "invalid"]
    /\ UNCHANGED <<build, now, notIdVars, eeprom, saved>>

\* "&CANID SAVE": EEPROMSaveCANID, the message, delay(1000)
HelperSave ==
    /\ build = "canid"
    /\ helper.pc = "idle"
    /\ eeprom' = g_deviceNumber
    /\ saved' = g_deviceNumber
    /\ serial' = [kind |-> "saved"]
    /\ helper' = [pc |-> "restart", line |-> <<"SAVE">>]
    /\ UNCHANGED <<build, now, notIdVars, g_deviceNumber>>

\* "&CANID GET"
HelperGet ==
    /\ build = "canid"
    /\ helper.pc = "idle"
    /\ serial' = [kind |-> "get", current |-> g_deviceNumber, stored |-> eeprom,
                  default |-> DEFAULT_DEVICE_NUMBER]
    /\ helper' = [pc |-> "idle", line |-> <<"GET">>]
    /\ UNCHANGED <<build, now, notIdVars, g_deviceNumber, eeprom, saved>>

\* any other line is read and dropped
HelperOtherLine ==
    /\ build = "canid"
    /\ helper.pc = "idle"
    /\ helper' = [pc |-> "idle", line |-> <<"OTHER">>]
    /\ UNCHANGED <<build, now, notIdVars, g_deviceNumber, eeprom, saved, serial>>

\* ESP.restart() at the end of SAVE, or a power cycle at any time: the RAM
\* and millis() start again, setup() runs EEPROMReadCANID, prints the device
\* number and creates the tasks
Restart ==
    /\ build = "canid"
    /\ g_deviceNumber' = EEPROMReadCANID(eeprom)
    /\ serial' = [kind |-> "boot", value |-> EEPROMReadCANID(eeprom)]
    /\ helper' = HelperIdle
    /\ now' = 0
    /\ logs' = EmptyLogs /\ logIndex' = 0 /\ logCount' = 0 /\ appended' = <<>>
    /\ g_uptimeSec' = 0 /\ tx' = TxAtRest
    /\ UNCHANGED <<build, wdVars, fwVars, loopVars, codecVars, page, startTime, lp, received,
                   everCleared, clearedAt, eeprom, saved>>

\* the sketch after setup(), for each byte the EEPROM may hold
InitCanId ==
    /\ build = "canid"
    /\ now = 0
    /\ can_started \in BOOLEAN
    /\ booted = TRUE
    /\ g_robotState = InitialRobotState /\ g_robotStateMutex = "NULL"
    /\ relay = RelayAtStart /\ relayPin = FALSE /\ driven = NothingDriven
    /\ mon = MonAtStart("alerts")
    /\ lastRxBit = NoBitYet /\ lastAppliedBit = NoBitYet /\ relayToggled = FALSE
    /\ g_stats = InitialStats /\ g_statsMutex = "NULL"
    /\ g_devices = EmptyDevices /\ g_devicesMutex = "NULL"
    /\ g_logBuffer = <<>> /\ g_logMutex = "NULL"
    /\ web = WebIdle /\ response = NoResponse
    /\ recoveries = 0 /\ rxTotal = 0 /\ alertsRead = 0 /\ seen = <<>>
    /\ LoopSketchAtRest /\ call = NoCall
    /\ logs = EmptyLogs /\ logIndex = 0 /\ logCount = 0 /\ startTime = 0
    /\ g_uptimeSec = 0
    /\ lp = LoopAtRest /\ tx = TxAtRest
    /\ received = 0 /\ appended = <<>> /\ everCleared = FALSE /\ clearedAt = 0 - 1
    /\ page = NoPage
    /\ eeprom \in EepromBytes
    /\ g_deviceNumber = EEPROMReadCANID(eeprom)
    /\ serial = [kind |-> "boot", value |-> EEPROMReadCANID(eeprom)]
    /\ helper = HelperIdle
    /\ saved = 0 - 1

NextCanId ==
    \/ HelperSet
    \/ HelperSave
    \/ HelperGet
    \/ HelperOtherLine
    \/ Restart
    \/ TxWake
    \/ TxStatusSend
    \/ TxHeartbeatSend
    \/ Tick

SpecCanId == InitCanId /\ [][NextCanId]_vars

----------------------------------------------------------------------------
(* The two sketches that transmit: the single-loop sketch with handleSend,  *)
(* and the beacon of part_000 with CAN_Send while no serial line arrives    *)

InitTransmit == InitLoop \/ InitCanId

\* TaskCANTx and the clock
NextBeacon ==
    \/ TxWake
    \/ TxStatusSend
    \/ TxHeartbeatSend
    \/ Tick

NextTransmit == NextLoop \/ NextBeacon

SpecTransmit == InitTransmit /\ [][NextTransmit]_vars

----------------------------------------------------------------------------
(* Claims on the watchdog, checked under SpecWatchdog *)

\* a step of RelayControlTask that reads g_robotState under the mutex
RelaySamples == relay.pc = "sample" /\ relay'.pc = "drive"

\* a step of CANMonitorTask that ends the handling of the frame mon'.msg
FrameHandled == mon' # mon /\ mon'.pc = AfterRobot

----------------------------------------------------------------------------
(* Claims on the sketch as setup() starts it, checked under SpecMutex *)

\* C3: while the observed state is HEARTBEAT_LOST the relay output keeps
\* toggling, driven by the relay task's own timer and not by frame arrival:
\* in every execution after setup in which no controller-status frame
\* arrives the relay level changes, here at least the first time (the claim
\* says infinitely often), even if no frame is ever received.
C3_RelayFlashesWithoutFrames ==
    <>(relayToggled \/ ControllerSignature(mon.msg))

----------------------------------------------------------------------------
(* Claims on the frame log *)

\* the rows of the last MAX_LOGS of the first n frames given to the log
LastRows(history, n) ==
    LET k == IF n < MAX_LOGS THEN n ELSE MAX_LOGS
    IN  [j \in 1..k |-> RowOfEntry(history[n - k + j])]

\* C8: the frame log never holds more than its capacity in any reachable
\* state, for every sequence of received frames, transmitted frames and
\* clears: here for the ring logs[] with its size counter logCount.
C8_LogWithinCapacity ==
    logCount <= MAX_LOGS

\* C9: overwrite-oldest eviction: after k >= capacity appends to an empty log
\* with no clear in between, an export (during which nothing is appended)
\* returns exactly capacity entries, the last capacity appended frames,
\* oldest first in their insertion order.
C9_ExportIsLastCapacity ==
    (page.kind = "data" /\ ~page.cleared /\ page.from = page.to /\ page.to >= MAX_LOGS)
    => page.rows = LastRows(appended, page.to)

\* C10: the export is safe to run concurrently with append: every exported
\* entry is exactly one frame as it was appended, never a mix of fields of
\* two frames and never a slot that was counted but not fully written.
C10_ExportedEntriesAreWhole ==
    page.kind = "data"
    => \A r \in 1..Len(page.rows) :
          \E k \in 1..Len(appended) : page.rows[r] = RowOfEntry(appended[k])

----------------------------------------------------------------------------
(* Claims on clearing the log *)

\* the rows of the frames at positions n+1 .. m of the history
RowsBetween(history, n, m) ==
    [j \in 1..(m - n) |-> RowOfEntry(history[n + j])]

\* C11: after a clear has sent its reply, an export yields exactly the
\* k <= capacity frames appended since the clear emptied the log, in order
\* (none if k = 0): here for handleClear and handleData of the "ring" sketch,
\* for exports during which nothing is appended.
C11_ClearThenRefill ==
    (page.kind = "data" /\ clearedAt >= 0 /\ page.from = page.to
        /\ page.to - clearedAt <= MAX_LOGS)
    => page.rows = RowsBetween(appended, clearedAt, page.to)

----------------------------------------------------------------------------
(* Claims on the single-loop sketch, checked under SpecLoop *)

\* a step of loop() that finds the bus off
BusOffFound == build = "loop" /\ lo.pc = "status" /\ busOffs' = busOffs + 1

\* a step of loop() that receives the frame lo'.msg
FrameReceived == build = "loop" /\ lo.pc = "rx" /\ framesIn' = framesIn + 1

\* C12: when the log is at capacity, recording the bus-off marker evicts the
\* oldest entry and stores the marker as the newest entry: the marker is not
\* dropped because the log is full.
C12_MarkerEvictsOldest ==
    [][(BusOffFound /\ bufferIndex >= MAX_MESSAGES)
       => /\ messageBuffer'[MAX_MESSAGES - 1].error
          /\ messageBuffer'[MAX_MESSAGES - 1].id = ErrorMarkerId
          /\ \A i \in 0..(MAX_MESSAGES - 2) : messageBuffer'[i] = messageBuffer[i + 1]]_vars

----------------------------------------------------------------------------
(* Claims on the device registry of the "mutex" sketch, checked under       *)
(* SpecMutex                                                                *)

\* the positions of the frames with identifier id in the history
FramesOf(id) == {k \in 1..Len(seen) : seen[k].id = id}

\* those whose registry section ran
TrackedOf(id) == {k \in FramesOf(id) : seen[k].tracked}

\* C13 as stated: after N received frames with one identifier the record of
\* that identifier has message count N, last-seen the time of the N-th frame
\* and first-seen the time of the first frame.
C13_CountsEveryFrame ==
    \A id \in {seen[k].id : k \in 1..Len(seen)} :
        /\ id \in DOMAIN g_devices
        /\ g_devices[id].messageCount = Cardinality(FramesOf(id))
        /\ \A k \in FramesOf(id) :
              /\ (\A j \in FramesOf(id) : j <= k) => g_devices[id].lastSeenMs = seen[k].t
              /\ (\A j \in FramesOf(id) : j >= k) => g_devices[id].firstSeenMs = seen[k].t

\* C13, amended: the record counts the frames whose registry update was not
\* skipped on a lock timeout; last-seen and first-seen are the times of the
\* last and the first of these; an identifier none of whose frames was
\* tracked has no record.
C13_CountsTrackedFrames ==
    \A id \in {seen[k].id : k \in 1..Len(seen)} \cup DOMAIN g_devices :
        IF TrackedOf(id) = {}
        THEN id \notin DOMAIN g_devices
        ELSE /\ id \in DOMAIN g_devices
             /\ g_devices[id].messageCount = Cardinality(TrackedOf(id))
             /\ \A k \in TrackedOf(id) :
                   /\ (\A j \in TrackedOf(id) : j <= k)
                         => g_devices[id].lastSeenMs = seen[k].t
                   /\ (\A j \in TrackedOf(id) : j >= k)
                         => g_devices[id].firstSeenMs = seen[k].t

\* two frames of one identifier were handled, the registry update of one of
\* them was skipped, and the record counts the other
C13_Witness ==
    \E id \in DOMAIN g_devices :
        /\ Cardinality(FramesOf(id)) = 2
        /\ Cardinality(TrackedOf(id)) = 1
        /\ g_devices[id].messageCount = 1

\* ---- the registry of the single-loop sketch ----

\* id has a record among the first n of devs
TrackedIn(devs, n, id) == \E i \in 0..(n - 1) : devs[i].canID = id

\* the identifiers the bus carries in these runs
LoopIds == {f.identifier : f \in LoopFrames}

\* the step is handleReset
ResetDone == build = "loop" /\ lo.pc = "client" /\ page'.kind = "Stats reset"

\* C14: a device record, once created, stays and its message count never
\* decreases in any step other than the reset, and the reset empties the
\* whole registry.
C14_RecordsPersist ==
    [][IF ResetDone
       THEN deviceCount' = 0
       ELSE \A i \in 0..(deviceCount - 1) :
               /\ i < deviceCount'
               /\ devices'[i].canID = devices[i].canID
               /\ devices'[i].messageCount >= devices[i].messageCount]_vars

\* C14: a record that was created and then updated by a second frame
C14_Witness ==
    /\ build = "loop"
    /\ deviceCount >= 1
    /\ devices[0].messageCount = 2
    /\ observed[devices[0].canID].count = 2

\* C15: deviceCount never exceeds MAX_DEVICES; with MAX_DEVICES records, a
\* frame with an untracked identifier leaves the registry unchanged and
\* counts no error, a frame with a tracked identifier updates its record, and
\* no step but the reset lets an untracked identifier become tracked.
C15_CapacityPolicy ==
    [][/\ deviceCount' <= MAX_DEVICES
       /\ (FrameReceived /\ deviceCount = MAX_DEVICES)
            => IF TrackedIn(devices, deviceCount, lo'.msg.identifier)
               THEN /\ deviceCount' = deviceCount
                    /\ \A i \in 0..(deviceCount - 1) :
                          IF devices[i].canID = lo'.msg.identifier
                          THEN /\ devices'[i].messageCount = devices[i].messageCount + 1
                               /\ devices'[i].lastSeen = now
                               /\ devices'[i].canID = devices[i].canID
                          ELSE devices'[i] = devices[i]
               ELSE /\ UNCHANGED <<devices, deviceCount>>
                    /\ errCount' = errCount
       /\ (deviceCount = MAX_DEVICES /\ ~ResetDone)
            => \A id \in LoopIds :
                  ~TrackedIn(devices, deviceCount, id)
                      => ~TrackedIn(devices', deviceCount', id)]_vars

\* C15: the registry is full and the frame just received has no record
C15_Witness ==
    /\ build = "loop"
    /\ lo.pc = "status"
    /\ lo.msg \in LoopFrames
    /\ lo.msg.identifier # HEARTBEAT_ID
    /\ deviceCount = MAX_DEVICES
    /\ ~TrackedIn(devices, deviceCount, lo.msg.identifier)
    /\ observed[lo.msg.identifier].count >= 1

\* C16: there is at most one record per identifier, and a frame whose
\* identifier has no record gets a record of its own while there is room,
\* whatever records share its device number; those stay as they were.
C16_KeyedByRawIdentifier ==
    [][/\ \A i, j \in 0..(deviceCount' - 1) :
             devices'[i].canID = devices'[j].canID => i = j
       /\ (/\ FrameReceived
           /\ lo'.msg.identifier # HEARTBEAT_ID
           /\ deviceCount < MAX_DEVICES
           /\ ~TrackedIn(devices, deviceCount, lo'.msg.identifier))
            => /\ deviceCount' = deviceCount + 1
               /\ devices'[deviceCount].canID = lo'.msg.identifier
               /\ devices'[deviceCount].messageCount = 1
               /\ \A i \in 0..(deviceCount - 1) : devices'[i] = devices[i]]_vars

\* C16: two identifiers that differ in the device type only, each with a
\* record of its own and the same device number
C16_Witness ==
    /\ build = "loop"
    /\ deviceCount = 2
    /\ {devices[0].canID, devices[1].canID} = {FrcId(2, 4, 5, 1), FrcId(3, 4, 5, 1)}
    /\ devices[0].deviceNumber = devices[1].deviceNumber
    /\ devices[0].messageCount = 1 /\ devices[1].messageCount = 1

\* ---- the identifier codec ----

\* the four fields an encoder was called with, and what each decoder reads
\* from the identifier it returned
Encoders == {"encode_id", "makeCANMsgID"}
Decoders == {"decode_id", "decodeCANMsgID"}
FieldsOf(c) == <<c.dt, c.man, c.api, c.dn>>
DecodedBy(fn, id) ==
    IF fn \in {"encode_id", "decode_id"}
    THEN <<decode_id(id).dt, decode_id(id).man, decode_id(id).api, decode_id(id).dn>>
    ELSE <<decodeCANMsgID(id).deviceID, decodeCANMsgID(id).manufacturerID,
           decodeCANMsgID(id).apiID, decodeCANMsgID(id).deviceNumber>>
EncodedBy(fn, dt, man, api, dn) ==
    IF fn \in {"encode_id", "decode_id"}
    THEN encode_id(dt, man, api, dn)
    ELSE makeCANMsgID(dt, man, api, dn)

\* C17: for fields in their ranges (device type and manufacturer 0..255,
\* API 0..1023, device number 0..63), decoding the identifier an encoder
\* returned gives the same four fields.
C17_RoundTrip ==
    (/\ call.fn \in Encoders
     /\ call.dt \in 0..255 /\ call.man \in 0..255
     /\ call.api \in 0..1023 /\ call.dn \in 0..63)
    => DecodedBy(call.fn, call.id) = FieldsOf(call)

\* C17: encode_id was called with every field at the top of its range
C17_Witness ==
    /\ call.fn = "encode_id"
    /\ FieldsOf(call) = <<127, 255, 1023, 63>>
    /\ call.id = 2147483647

\* C18: for any API value up to 65535, decoding the identifier an encoder
\* returned gives the device type and the manufacturer it was called with
\* and the API value modulo 1024.
C18_OversizedApiIsMasked ==
    call.fn \in Encoders
    => /\ DecodedBy(call.fn, call.id)[1] = call.dt
       /\ DecodedBy(call.fn, call.id)[2] = call.man
       /\ DecodedBy(call.fn, call.id)[3] = call.api % 1024

\* C19: an encoder returns for device number d the identifier it returns
\* for d modulo 64.
C19_DeviceNumberIsMasked ==
    call.fn \in Encoders
    => call.id = EncodedBy(call.fn, call.dt, call.man, call.api, call.dn % 64)

\* C19: encode_id called with device number 70 returned the identifier of
\* device number 6
C19_Witness ==
    /\ call.fn = "encode_id"
    /\ FieldsOf(call) = <<10, 8, 96, 70>>
    /\ call.id = 168302598

\* C20: encoding the four fields a decoder read from a 29-bit identifier
\* gives that identifier again, and 0x0A081801 is read as device type 10,
\* manufacturer 8, API 96, device number 1.
C20_ReencodeGivesId ==
    (call.fn \in Decoders /\ call.id \in 0..((2 ^ 29) - 1))
    => /\ EncodedBy(call.fn, call.dt, call.man, call.api, call.dn) = call.id
       /\ call.id = 168302593 => FieldsOf(call) = <<10, 8, 96, 1>>

\* C20: decodeCANMsgID was called with 0x0A081801
C20_Witness ==
    /\ call.fn = "decodeCANMsgID"
    /\ call.id = 168302593
    /\ FieldsOf(call) = <<10, 8, 96, 1>>
    /\ makeCANMsgID(10, 8, 96, 1) = 168302593

\* ---- the ingestion path of CANMonitorTask ----

\* CANMonitorTask leaves the section at pc in this step
MonLeaves(pc) == mon.pc = pc /\ mon'.pc # pc

\* C21: each of the four sections of the ingestion path (watchdog,
\* statistics, registry, log) updates its own component exactly if its lock
\* is free, leaves the other components as they were, and hands the task on
\* to the next section, the last one to the next iteration.
C21_BestEffortIngestion ==
    [][/\ MonLeaves("robot_take")
            => /\ mon'.pc \in {"robot_update", AfterRobot}
               /\ UNCHANGED <<g_stats, g_devices, g_logBuffer>>
       /\ MonLeaves("stats")
            => /\ mon'.pc = "devices"
               /\ g_stats' = IF g_statsMutex = "free"
                             THEN [g_stats EXCEPT !.totalMessages = @ + 1]
                             ELSE g_stats
               /\ UNCHANGED <<g_robotState, g_devices, g_logBuffer>>
       /\ MonLeaves("devices")
            => /\ mon'.pc = "log"
               /\ (g_devicesMutex = "free") <=> (mon.msg.identifier \in DOMAIN g_devices'
                      /\ g_devices'[mon.msg.identifier].lastSeenMs = now
                      /\ g_devices' # g_devices)
               /\ (g_devicesMutex # "free") => g_devices' = g_devices
               /\ UNCHANGED <<g_robotState, g_stats, g_logBuffer>>
       /\ MonLeaves("log")
            => /\ mon'.pc = "alerts"
               /\ g_logBuffer' = IF g_logMutex = "free"
                                 THEN PushLog(g_logBuffer,
                                              LogEntryOf(mon.msg, FALSE, "", now))
                                 ELSE g_logBuffer
               /\ UNCHANGED <<g_robotState, g_stats, g_devices>>]_vars

\* ---- the locks ----

\* the locks a task holds
HeldBy(task) ==
    {name \in {"robot", "stats", "devices", "log"} :
        [robot |-> g_robotStateMutex, stats |-> g_statsMutex,
         devices |-> g_devicesMutex, log |-> g_logMutex][name] = task}

\* C22: a task holds at most one lock; it holds none while it waits for a
\* lock, in a receive or a delay, or outside a handler, so that no task ever
\* waits for a lock whose holder waits in turn.
C22_LocksIndependent ==
    /\ \A task \in {"web", "monitor", "relay"} : Cardinality(HeldBy(task)) <= 1
    /\ web.pc \in {"idle", "status_devices_take", "sent"} => HeldBy("web") = {}
    /\ mon.pc # "robot_update" => HeldBy("monitor") = {}
    /\ relay.pc # "sample" => HeldBy("relay") = {}

\* C22: handleAPIStatus in its registry section while CANMonitorTask is at
\* the statistics section of a frame: the statistics lock is free again
C22_Witness ==
    /\ build = "mutex"
    /\ web.pc = "status_devices"
    /\ HeldBy("web") = {"devices"}
    /\ mon.pc = "stats"
    /\ g_statsMutex = "free"

\* ---- progress of the tasks ----

\* C23: no task blocks for ever: CANMonitorTask, once the driver runs, comes
\* to its twai_receive again and again, and RelayControlTask to its
\* digitalWrite again and again, whoever holds a lock.
C23_NoTaskBlocksForever ==
    /\ []<>(can_started => mon.pc = "receive")
    /\ []<>(relay.pc = "drive")

\* ---- alerts ----

\* the log has grown by one entry that is flagged as an error
ErrorEntryAdded ==
    /\ g_logBuffer' # <<>>
    /\ g_logBuffer'[Len(g_logBuffer')].isError
    /\ g_logBuffer'[Len(g_logBuffer')].timestamp = now
    /\ g_logBuffer' = PushLog(g_logBuffer, g_logBuffer'[Len(g_logBuffer')])

\* CANMonitorTask ends the counters section of an alert word with flag
AlertCounted(flag) == MonLeaves("alert_stats") /\ flag \in mon.alerts

\* C24, as stated: every bus-off alert is answered by a recovery request, an
\* increment of the bus-off counter and one error entry in the log.
C24_BusOffFullyAnswered ==
    [][/\ AlertCounted("BUS_OFF")
            => g_stats'.busOffErrors = g_stats.busOffErrors + 1
       /\ MonLeaves("busoff")
            => (recoveries' = recoveries + 1 /\ ErrorEntryAdded)]_vars

\* C24, amended: every bus-off alert is answered by a recovery request; the
\* bus-off counter is incremented exactly if the statistics lock is taken,
\* and one error entry is logged exactly if the log lock is taken.
C24_BusOffRecoversAlways ==
    [][/\ AlertCounted("BUS_OFF")
            => /\ mon'.pc = "busoff"
               /\ g_stats'.busOffErrors =
                      IF g_statsMutex = "free" THEN g_stats.busOffErrors + 1
                      ELSE g_stats.busOffErrors
       /\ MonLeaves("busoff")
            => /\ recoveries' = recoveries + 1
               /\ IF g_logMutex = "free" THEN ErrorEntryAdded
                  ELSE g_logBuffer' = g_logBuffer]_vars

\* C24: a bus-off alert has been answered by a recovery while the handlers
\* held first the statistics lock and then the log lock
C24_Witness ==
    /\ build = "mutex"
    /\ mon.pc = "receive"
    /\ "BUS_OFF" \in mon.alerts
    /\ recoveries = 1
    /\ g_stats.busOffErrors = 0
    /\ g_logBuffer = <<>>
    /\ g_logMutex = "web"

\* the counter of the alert section that stands for an alert flag
AlertCounter(stats, flag) ==
    CASE flag = "BUS_OFF" -> stats.busOffErrors
      [] flag = "ARB_LOST" -> stats.arbLostErrors
      [] flag = "RX_QUEUE_FULL" -> stats.rxQueueFull
      [] flag = "TX_FAILED" -> stats.txQueueFull
      [] flag = "RX_DATA" -> stats.rxErrors

\* CANMonitorTask ends the handling of an alert word with flag
AlertHandled(flag) ==
    /\ mon.pc \in {"alert_stats", "busoff"}
    /\ mon'.pc = "receive"
    /\ flag \in mon.alerts

\* C25: an arbitration-lost and a queue-full alert each increment their
\* counter and add an error entry to the log, at least when the statistics
\* lock and the log lock are free.
C25_AlertsCountedAndLogged ==
    [][\A flag \in {"ARB_LOST", "RX_QUEUE_FULL"} :
          /\ (AlertCounted(flag) /\ g_statsMutex = "free")
                => AlertCounter(g_stats', flag) = AlertCounter(g_stats, flag) + 1
          /\ (AlertHandled(flag) /\ g_logMutex = "free") => ErrorEntryAdded]_vars

\* ---- the counters of the single-loop sketch ----

\* one counter in a step: it stays or goes up by one
StaysOrIncrements(before, after) == after = before \/ after = before + 1

\* C26: in every step other than the reset each of the counters stays as it
\* is or is incremented; only the reset lowers a counter.
C26_CountersMonotonic ==
    [][~ResetDone
          => /\ StaysOrIncrements(rxCount, rxCount')
             /\ StaysOrIncrements(txCount, txCount')
             /\ StaysOrIncrements(errCount, errCount')]_vars

\* C26: frames were received, one was sent, the bus was found off, and the
\* log was cleared after that
C26_Witness ==
    /\ build = "loop"
    /\ rxCount = 2 /\ txCount = 1 /\ errCount = 1
    /\ page.kind = "Messages cleared"

\* C27: the reset leaves the three counters at 0, whatever they were, and a
\* frame received while they are 0 brings rxCount to 1 and leaves the other
\* two at 0.
C27_ResetThenIncrement ==
    [][/\ ResetDone => (rxCount' = 0 /\ txCount' = 0 /\ errCount' = 0)
       /\ (FrameReceived /\ rxCount = 0 /\ txCount = 0 /\ errCount = 0)
            => (rxCount' = 1 /\ txCount' = 0 /\ errCount' = 0)]_vars

\* C27: two frames and a bus-off were counted, the counters were reset, and
\* one more frame has been received
C27_Witness ==
    /\ build = "loop"
    /\ lo.pc = "status"
    /\ framesIn = 3 /\ busOffs = 1
    /\ rxCount = 1 /\ txCount = 0 /\ errCount = 0

\* ---- the device number and its serial commands ----

\* the step is a SET command
SetDone == build = "canid" /\ helper.pc = "idle" /\ Len(helper'.line) = 2

\* the step is a restart
Restarted == build = "canid" /\ serial'.kind = "boot"

\* C28: the device number is always within 0..63; a SET whose value is
\* outside 0..63 prints the rejection and leaves the device number and the
\* EEPROM byte as they were; a restart with an EEPROM byte above 63 gives
\* the default device number.
C28_DeviceNumberInRange ==
    /\ [](g_deviceNumber \in 0..63)
    /\ [][/\ (SetDone /\ toInt(helper'.line[2]) \notin 0..63)
               => /\ serial'.kind = "invalid"
                  /\ UNCHANGED <<g_deviceNumber, eeprom>>
          /\ (Restarted /\ eeprom > 63)
               => g_deviceNumber' = DEFAULT_DEVICE_NUMBER]_vars

\* C28: SET 64 has been rejected while the EEPROM holds a byte above 63 and
\* the device number is the default
C28_Witness ==
    /\ build = "canid"
    /\ helper.line = <<"SET", <<"6", "4">> >>
    /\ serial.kind = "invalid"
    /\ eeprom = 255
    /\ g_deviceNumber = DEFAULT_DEVICE_NUMBER

\* the step is a SAVE command
SaveDone == build = "canid" /\ helper.pc = "idle" /\ helper'.pc = "restart"

\* C29: an accepted SET changes the running device number and not the EEPROM
\* byte; SAVE writes the running device number to the EEPROM byte and is
\* followed by a restart, with only the beacon running in between; after a
\* restart the running device number is the value last saved, whatever was
\* set since.
C29_SetIsLiveSaveIsDurable ==
    [][/\ (SetDone /\ toInt(helper'.line[2]) \in 0..63)
            => /\ g_deviceNumber' = toInt(helper'.line[2])
               /\ eeprom' = eeprom
       /\ SaveDone => (eeprom' = g_deviceNumber /\ g_deviceNumber' = g_deviceNumber)
       /\ helper.pc = "restart" => (Restarted \/ UNCHANGED <<helper, g_deviceNumber, eeprom>>)
       /\ (Restarted /\ saved >= 0) => g_deviceNumber' = saved]_vars

\* C29: SET 9, SAVE and the restart have given device number 9
C29_Witness ==
    /\ build = "canid"
    /\ serial = [kind |-> "boot", value |-> 9]
    /\ g_deviceNumber = 9
    /\ saved = 9
    /\ eeprom = 9

\* ---- POST /send ----

\* the text is a hexadecimal number, with or without 0x
IsHexText(text) ==
    LET from == IF Len(text) >= 2 /\ text[1] = "0" /\ text[2] = "x" THEN 3 ELSE 1
    IN  /\ from <= Len(text)
        /\ \A k \in from..Len(text) : IsHexDigit(text[k])

\* a request with both arguments of which one is no hexadecimal text
Unparsable(req) ==
    /\ req.hasId /\ req.hasData
    /\ \/ ~IsHexText(req.id)
       \/ \E k \in 1..Len(req.data) : ~IsHexText(req.data[k])

\* the step is handleSend
SendDone == build = "loop" /\ lo.pc = "client" /\ sends' = sends + 1

\* C30: a send request whose identifier or payload is no hexadecimal text is
\* answered with an error, its frame is not transmitted and txCount stays.
C30_UnparsableSendRejected ==
    [][SendDone
          => \A req \in SendRequests :
                (Unparsable(req) /\ page'.frame = SendFrame(req))
                    => (page'.code # 200 /\ txCount' = txCount)]_vars

\* ---- the snapshots of the handlers ----

\* the counters of CANStats: every field but the start time
CounterFields == DOMAIN InitialStats \ {"startTimeMs"}

\* handleAPIStatus writes the statistics part of its reply
StatusWritten ==
    /\ web.pc = "status_stats"
    /\ web'.pc = "status_devices_take"

\* C31: the statistics part of every status reply holds every counter of
\* g_stats, each with the value it has in the one state the reply is built
\* from, and the uptime derived at that state.
C31_StatusIsFullSnapshot ==
    [][StatusWritten
          => /\ \A f \in CounterFields :
                   /\ f \in DOMAIN web'.json[1]
                   /\ web'.json[1][f] = g_stats[f]
             /\ web'.json[1].uptimeMs = now - g_stats.startTimeMs]_vars

\* handleAPIDevices is between its xSemaphoreTake and its xSemaphoreGive, in
\* a step that is not the restart after a panic
DevicesBeingRead == web.pc = "devices" /\ web'.pc \in {"devices", "sent"}

\* handleAPIDevices hands its reply to server.send
DevicesSent == web.pc = "devices" /\ web'.pc = "sent"

\* C32: while handleAPIDevices reads the registry no update is applied to it,
\* the reply holds every record as the registry has it at that one state, and
\* a reply that was built is not changed by what the registry does later.
C32_DevicesReplyIsSnapshot ==
    [][/\ DevicesBeingRead => g_devices' = g_devices
       /\ DevicesSent => response'.body = DevicesReply(g_devices)
       /\ (response.kind = "devices" /\ response'.kind = "devices") => response' = response]_vars

\* C32: a reply with a record has been built, and a frame reached the
\* registry section while a handler held the registry
C32_Witness ==
    /\ response.kind = "devices"
    /\ Len(response.body) > 0
    /\ \E i \in 1..Len(seen) : ~seen[i].tracked

\* ---- the indices of the ring log ----

\* neither task of the ring sketch is inside an append, an export or a clear
RingAtRestPoint == build = "ring" /\ lp.pc = "client" /\ tx.pc = "sleep"

\* C33: whenever no append, export or clear is under way in the ring sketch,
\* logIndex is a slot of logs[], logCount is at most the capacity, and while
\* the log has not filled logIndex equals logCount.
C33_RingIndexInvariant ==
    RingAtRestPoint
    => /\ logIndex \in 0..(MAX_LOGS - 1)
       /\ logCount \in 0..MAX_LOGS
       /\ logCount < MAX_LOGS => logIndex = logCount

\* ---- the relay output ----

\* RelayControlTask writes the pin and ends its iteration
RelayDrives == relay.pc = "drive" /\ relay'.pc = "take"

C35_LocksCreatedBeforeTaken ==
    build = "mutex"
    => /\ booted => (g_statsMutex # "NULL" /\ g_devicesMutex # "NULL" /\ g_logMutex # "NULL")
       /\ mon.pc \in {"alert_stats", "stats"} => g_statsMutex # "NULL"
       /\ mon.pc = "devices" => g_devicesMutex # "NULL"
       /\ mon.pc \in {"busoff", "log"} => g_logMutex # "NULL"
       /\ mon.pc = "robot_take" => g_robotStateMutex # "NULL"

\* ---- the beacon and the serial SET ----

\* the transmitted frames that are heartbeats
IsHeartbeatEntry(e) == e.is_tx /\ decode_id(e.id).api = API_TX_HEARTBEAT

\* TaskCANTx builds a heartbeat frame and calls CAN_Send
HeartbeatComposed == build = "canid" /\ tx.pc # "hb_tx" /\ tx'.pc = "hb_tx"

\* C36: every heartbeat frame that was transmitted carries in payload byte 1
\* the device number of the low 6 bits of its identifier, and a heartbeat
\* built after a SET v has completed carries v in both places.
C36_BeaconSelfConsistent ==
    /\ [](build = "canid"
            => \A i \in 1..Len(appended) :
                  IsHeartbeatEntry(appended[i])
                     => appended[i].data[2] = decode_id(appended[i].id).dn)
    /\ [][(HeartbeatComposed /\ serial.kind = "set")
             => (tx'.buf[2] = serial.value /\ decode_id(tx'.id).dn = serial.value)]_vars

\* C36: a heartbeat was transmitted with the number of a SET that differs
\* from the number the sketch booted with
C36_Witness ==
    /\ build = "canid"
    /\ serial.kind = "set"
    /\ serial.value # EEPROMReadCANID(eeprom)
    /\ Len(appended) > 0
    /\ IsHeartbeatEntry(appended[Len(appended)])
    /\ appended[Len(appended)].data[2] = serial.value

\* ---- the accounting of transmitted frames ----

\* a CAN_Send of TaskCANTx returns from twai_transmit (the restart, which
\* sets the clock back, is not such a step)
CanSendReturns ==
    /\ \/ tx.pc = "status_tx" /\ tx'.pc # "status_tx"
       \/ tx.pc = "hb_tx" /\ tx'.pc = "sleep"
    /\ now' = now

\* the log with one more entry: the frame that was handed to twai_transmit
OneTxEntryAppended ==
    LET e == TxEntry(tx.id, tx.buf, 8, now - startTime)
    IN  /\ e.is_tx
        /\ logs' = [logs EXCEPT ![logIndex] = e]
        /\ logIndex' = (logIndex + 1) % MAX_LOGS
        /\ logCount' = IF logCount < MAX_LOGS THEN logCount + 1 ELSE logCount
        /\ appended' = Append(appended, e)

\* C37: CAN_Send appends one is_tx entry when twai_transmit succeeded and
\* leaves the log as it is when it failed; with the bus not started
\* TaskCANTx never changes the log; handleSend adds one to txCount when its
\* transmit succeeded and leaves the three counters as they are when it
\* failed or an argument is missing.
C37_CountedOnlyWhenTransmitted ==
    [][/\ (CanSendReturns /\ tx'.success) => OneTxEntryAppended
       /\ (CanSendReturns /\ ~tx'.success) => UNCHANGED <<logs, logIndex, logCount, appended>>
       /\ (build = "canid" /\ ~can_started /\ now' = now)
             => (~tx'.success /\ UNCHANGED <<logs, logIndex, logCount, appended>>)
       /\ (SendDone /\ page'.code = 200)
             => (txCount' = txCount + 1 /\ UNCHANGED <<rxCount, errCount>>)
       /\ (SendDone /\ page'.code # 200) => UNCHANGED <<rxCount, txCount, errCount>>]_vars

\* C37: the beacon has logged a transmitted frame and then had a transmit
\* fail
C37_Witness ==
    /\ build = "canid"
    /\ tx.pc = "sleep" /\ ~tx.success /\ can_started
    /\ logCount = 1
    /\ now = 2 * TickMs

\* ---- what the clear and the reset leave alone ----

\* the step is handleClear
ClearDone == build = "loop" /\ lo.pc = "client" /\ page'.kind = "Messages cleared"

\* C38: handleClear sets bufferIndex and totalMessages to 0 and
\* bufferOverflow to false and leaves the three counters, lastHeartbeat and
\* the registry as they are; handleReset zeroes the counters and
\* lastHeartbeat, empties the registry and leaves the log as it is.
C38_ClearAndResetFrames ==
    [][/\ ClearDone
            => /\ bufferIndex' = 0 /\ totalMessages' = 0 /\ bufferOverflow' = FALSE
               /\ UNCHANGED <<rxCount, txCount, errCount, lastHeartbeat, devices, deviceCount>>
       /\ ResetDone
            => /\ rxCount' = 0 /\ txCount' = 0 /\ errCount' = 0 /\ lastHeartbeat' = 0
               /\ deviceCount' = 0
               /\ UNCHANGED <<messageBuffer, bufferIndex, totalMessages, bufferOverflow>>]_vars

\* C38: the reset has run on a log that holds messages, after frames were
\* received and tracked
C38_Witness ==
    /\ build = "loop"
    /\ page.kind = "Stats reset"
    /\ lo.pc = "rx"
    /\ framesIn >= 2
    /\ bufferIndex >= 1 /\ totalMessages >= 1
    /\ deviceCount = 0 /\ rxCount = 0

\* ---- the split-layout decoder against the 10-bit-API decoders ----

\* C39: for an identifier below 2^29 the split-layout decoder reads the
\* device type, manufacturer and device number that decodeCANMsgID and
\* decode_id read, and their 10-bit API is its apiClass * 16 + apiIndex.
C39_DecodersAgree ==
    (call.fn = "decodeFRCCANID" /\ call.id \in 0..((2 ^ 29) - 1))
    => LET d == decodeCANMsgID(call.id)
           e == decode_id(call.id)
           api == call.apiClass * 16 + call.apiIndex
       IN  /\ <<d.deviceID, d.manufacturerID, d.apiID, d.deviceNumber>>
                 = <<call.dt, call.man, api, call.dn>>
           /\ <<e.dt, e.man, e.api, e.dn>> = <<call.dt, call.man, api, call.dn>>

\* C39: decodeFRCCANID was called with the largest 29-bit identifier
C39_Witness ==
    /\ call.fn = "decodeFRCCANID"
    /\ call.id = (2 ^ 29) - 1
    /\ call.dt = 31 /\ call.apiClass = 63 /\ call.apiIndex = 15
    /\ decodeCANMsgID(call.id).apiID = 1023

====
